---- MODULE Spec2Model ----
(***************************************************************************)
(* Calculator with photo (OCR) input: the Calculator state machine         *)
(* (src/src/calculator.js), the expression sanitizer                       *)
(* (src/src/utils/toast.js), the OCR processor with its history list       *)
(* (src/unnamed/part_001, imported as ./ocr.js) and the UI event handlers  *)
(* that drive them (src/src/ui.js).                                        *)
(*                                                                         *)
(* JavaScript strings are sequences of one-character strings; a character  *)
(* outside ASCII is written by its code point, e.g. "U+00D7" for the       *)
(* multiplication sign.  JavaScript numbers are IEEE-754 binary64 values,  *)
(* modelled bit-exactly (53-bit significand, round to nearest even) on     *)
(* natural numbers kept as little-endian sequences of 15-bit limbs.        *)
(***************************************************************************)
EXTENDS Integers, Sequences, FiniteSets, TLC

(***************************************************************************)
(* Natural numbers of arbitrary size: little-endian sequences of limbs in  *)
(* 0..Base-1 without high zero limbs (<<>> is 0).  Carries and borrows are *)
(* written in closed (look-ahead) form rather than by recursion, and an    *)
(* intermediate value that is used more than once is passed as an operator *)
(* argument, which is evaluated once.                                      *)
(***************************************************************************)
Base == 32768

LimbBits == 15

\* Operator arguments are evaluated where they are first used; CASE Known(v)
\* evaluates v here, which bounds the depth of the evaluation.
Known(v) == v = v

\* Call(f, args) is the operator named f applied to args; it is defined after
\* the last of these operators.  An operator that many others apply is
\* applied through Call: TLC measures a definition by walking through the
\* definition of every operator it applies, once per application, and stops
\* at an operator it is already inside, so that the walk meets each of these
\* operators once.
RECURSIVE Call(_, _)

Max(a, b) == IF a >= b THEN a ELSE b

Min(a, b) == IF a <= b THEN a ELSE b

MaxOf(S) == CHOOSE m \in S : \A k \in S : k <= m

MinOf(S) == CHOOSE m \in S : \A k \in S : m <= k

BLimb(x, i) == IF 1 <= i /\ i <= Len(x) THEN x[i] ELSE 0

BNorm(x) ==
    CASE Known(x) ->
    IF \A i \in 1..Len(x) : x[i] = 0 THEN <<>>
    ELSE SubSeq(x, 1, CHOOSE m \in 1..Len(x) :
                         x[m] # 0 /\ \A k \in (m + 1)..Len(x) : x[k] = 0)

BFromInt(n) ==
    BNorm(<<n % Base, (n \div Base) % Base, n \div (Base * Base)>>)

\* the value of a number below 2^30
BToInt(x) == BLimb(x, 1) + Base * BLimb(x, 2)

\* the carry into limb i of the limb-wise sums s
Carry(s, i) ==
    IF \E j \in 1..(i - 1) :
          s[j] >= Base /\ \A k \in (j + 1)..(i - 1) : s[k] = Base - 1
    THEN 1 ELSE 0

BAddSums(s) ==
    CASE Known(s) -> BNorm(SubSeq([i \in 1..Len(s) |-> (s[i] + Carry(s, i)) % Base], 1, Len(s)))

\* x + y
BAdd(x, y) ==
    CASE Known(x) /\ Known(y) ->
    BAddSums(SubSeq([i \in 1..(Max(Len(x), Len(y)) + 1) |-> BLimb(x, i) + BLimb(y, i)],
                    1, Max(Len(x), Len(y)) + 1))

\* the borrow out of the limbs below i of x - y
Borrow(x, y, i) ==
    IF \E j \in 1..(i - 1) :
          x[j] < BLimb(y, j) /\ \A k \in (j + 1)..(i - 1) : x[k] = BLimb(y, k)
    THEN 1 ELSE 0

\* x - y for x >= y
BSub(x, y) ==
    CASE Known(x) /\ Known(y) ->
    BNorm(SubSeq([i \in 1..Len(x) |->
                     (x[i] - BLimb(y, i) - Borrow(x, y, i) + Base) % Base], 1, Len(x)))

\* -1, 0, 1 as x <, =, > y
BCmp(x, y) ==
    IF Len(x) > Len(y) THEN 1
    ELSE IF Len(x) < Len(y) THEN -1
    ELSE IF x = y THEN 0
    ELSE IF \E i \in 1..Len(x) :
               x[i] > y[i] /\ \A k \in (i + 1)..Len(x) : x[k] = y[k]
         THEN 1 ELSE -1

\* x * k for 0 <= k < Base
BMulSmall(x, k) ==
    CASE Known(x) ->
    BAdd(SubSeq([i \in 1..Len(x) |-> (x[i] * k) % Base], 1, Len(x)),
         SubSeq([i \in 1..(Len(x) + 1) |->
                    IF i = 1 THEN 0 ELSE (x[i - 1] * k) \div Base], 1, Len(x) + 1))

\* x * Base^a
BShlLimbs(x, a) == IF x = <<>> THEN <<>> ELSE SubSeq([i \in 1..a |-> 0], 1, a) \o x

\* x * y[j] * Base^(j-1)
BMulTerm(x, y, j) ==
    IF j > Len(y) THEN <<>> ELSE BShlLimbs(BMulSmall(x, y[j]), j - 1)

\* x * y for y of at most 8 limbs
BMul8(x, y) ==
    CASE Known(x) /\ Known(y) ->
    BAdd(BAdd(BAdd(BMulTerm(x, y, 1), BMulTerm(x, y, 2)),
              BAdd(BMulTerm(x, y, 3), BMulTerm(x, y, 4))),
         BAdd(BAdd(BMulTerm(x, y, 5), BMulTerm(x, y, 6)),
              BAdd(BMulTerm(x, y, 7), BMulTerm(x, y, 8))))

RECURSIVE BMul(_, _)
BMul(x, y) ==
    IF Len(y) > Len(x) THEN Call("BMul", <<y, x>>)
    ELSE IF y = <<1>> THEN x
    ELSE IF Len(y) <= 8 THEN Call("BMul8", <<x, y>>)
    ELSE BAdd(Call("BMul8", <<x, SubSeq(y, 1, 8)>>),
              BShlLimbs(Call("BMul", <<x, SubSeq(y, 9, Len(y))>>), 8))

\* x * 2^b * Base^a for 0 <= b < LimbBits
BShlBits(x, a, b) ==
    CASE Known(x) ->
    BShlLimbs(BNorm(SubSeq([i \in 1..(Len(x) + 1) |->
                               (BLimb(x, i) % (2 ^ (LimbBits - b))) * (2 ^ b)
                               + BLimb(x, i - 1) \div (2 ^ (LimbBits - b))],
                           1, Len(x) + 1)),
              a)

\* x * 2^s
BShl(x, s) == IF s = 0 THEN x ELSE BShlBits(x, s \div LimbBits, s % LimbBits)

\* floor(x / (2^b * Base^a)) for 0 <= b < LimbBits
BShrBits(x, a, b) ==
    CASE Known(x) ->
    BNorm(SubSeq([i \in 1..(Len(x) - a) |->
                     BLimb(x, i + a) \div (2 ^ b)
                     + (BLimb(x, i + a + 1) % (2 ^ b)) * (2 ^ (LimbBits - b))],
                 1, Max(Len(x) - a, 0)))

\* floor(x / 2^s)
BShr(x, s) == IF s = 0 THEN x ELSE BShrBits(x, s \div LimbBits, s % LimbBits)

\* whether x is a multiple of 2^s
BLowZero(x, s) ==
    /\ \A i \in 1..Min(s \div LimbBits, Len(x)) : x[i] = 0
    /\ BLimb(x, s \div LimbBits + 1) % (2 ^ (s % LimbBits)) = 0

\* bit s (from 0) of x
BBit(x, s) == (BLimb(x, s \div LimbBits + 1) \div (2 ^ (s % LimbBits))) % 2

IntBitLen(n) == IF n = 0 THEN 0 ELSE 1 + MaxOf({b \in 0..30 : 2 ^ b <= n})

BBitLen(x) ==
    IF x = <<>> THEN 0 ELSE LimbBits * (Len(x) - 1) + IntBitLen(x[Len(x)])

\* Long division of xn by yn, both scaled so that yn's top limb is at least
\* Base/2: each quotient limb is estimated from the two top limbs of the
\* running remainder cur and is at most 2 too large.
DivLimb(yn, pq, cur, q) ==
    CASE Known(cur) -> [q |-> <<q>> \o pq, r |-> BSub(cur, BMulSmall(yn, q))]

DivFix(yn, pq, cur, qhat) ==
    CASE Known(cur) ->
    IF BCmp(BMulSmall(yn, qhat), cur) <= 0 THEN DivLimb(yn, pq, cur, qhat)
    ELSE IF BCmp(BMulSmall(yn, qhat - 1), cur) <= 0 THEN DivLimb(yn, pq, cur, qhat - 1)
    ELSE DivLimb(yn, pq, cur, qhat - 2)

DivCur(yn, pq, cur) ==
    CASE Known(cur) ->
    IF BCmp(cur, yn) < 0 THEN [q |-> <<0>> \o pq, r |-> cur]
    ELSE DivFix(yn, pq, cur,
                Min(Base - 1, (BLimb(cur, Len(yn) + 1) * Base + BLimb(cur, Len(yn)))
                              \div yn[Len(yn)]))

DivStep(yn, xi, prev) ==
    IF Len(prev.q) < 0 THEN prev ELSE DivCur(yn, prev.q, BNorm(<<xi>> \o prev.r))

\* the quotient limbs i.. and the remainder of the limbs i.. of xn
RECURSIVE BDivFrom(_, _, _)
BDivFrom(xn, yn, i) ==
    IF i > Len(xn) - Len(yn) + 1
    THEN [q |-> <<>>, r |-> SubSeq(xn, Max(i, 1), Len(xn))]
    ELSE DivStep(yn, xn[i], BDivFrom(xn, yn, i + 1))

BDivOut(d, s) == CASE Known(d) -> [q |-> BNorm(d.q), r |-> BShr(d.r, s)]

BDivScaled(x, y, s) ==
    CASE Known(x) /\ Known(y) -> BDivOut(BDivFrom(BShl(x, s), BShl(y, s), 1), s)

\* floor(x / y) and x mod y, for y > 0
BDivMod(x, y) ==
    IF y = <<1>> THEN [q |-> x, r |-> <<>>]
    ELSE IF BCmp(x, y) < 0 THEN [q |-> <<>>, r |-> x]
    ELSE BDivScaled(x, y, LimbBits - IntBitLen(y[Len(y)]))

BSquare(h) == Call("BMul", <<h, h>>)

\* 10^k
RECURSIVE BPow10(_)
BPow10(k) ==
    IF k <= 8 THEN BFromInt(10 ^ k)
    ELSE IF k % 2 = 0 THEN BSquare(Call("BPow10", <<k \div 2>>))
    ELSE BMulSmall(BSquare(Call("BPow10", <<k \div 2>>)), 10)

(***************************************************************************)
(* JavaScript numbers (IEEE-754 binary64).  A finite nonzero number is     *)
(* m * 2^e with 2^52 <= m < 2^53 (or e = -1074 and m < 2^52, subnormal).   *)
(***************************************************************************)
DNaN == [k |-> "nan", neg |-> FALSE, m |-> <<>>, e |-> 0]

DInf(neg) == [k |-> "inf", neg |-> neg, m |-> <<>>, e |-> 0]

DZero(neg) == [k |-> "zero", neg |-> neg, m |-> <<>>, e |-> 0]

DPack(neg, m, e) ==
    IF e + BBitLen(m) > 1024 THEN DInf(neg)
    ELSE [k |-> "num", neg |-> neg, m |-> m, e |-> e]

\* the rounded significand m1 may have reached 2^53
RoundCarry(neg, m1, e) ==
    IF m1 = <<>> THEN DZero(neg)
    ELSE IF BBitLen(m1) = 54 THEN DPack(neg, BShr(m1, 1), e + 1)
    ELSE DPack(neg, m1, e)

\* drop the low bits of the quotient d.q, rounding to nearest, ties to even
RoundBits(neg, d, drop, m0, e) ==
    CASE Known(m0) ->
    IF /\ BBit(d.q, drop - 1) = 1
       /\ \/ ~BLowZero(d.q, drop - 1)
          \/ d.r # <<>>
          \/ BBit(m0, 0) = 1
    THEN RoundCarry(neg, BAdd(m0, <<1>>), e)
    ELSE RoundCarry(neg, m0, e)

RoundDrop(neg, d, drop, e0) ==
    CASE Known(drop) -> RoundBits(neg, d, drop, BShr(d.q, drop), e0 + drop)

\* d.q (with remainder d.r) * 2^e0, d.q of 55 or 56 bits
RoundQuot(neg, d, e0) ==
    CASE Known(d) -> RoundDrop(neg, d, Max(BBitLen(d.q) - 53, -1074 - e0), e0)

RoundShift(neg, p, q, e2, sh) ==
    CASE Known(sh) ->
    RoundQuot(neg,
              Call("BDivMod", <<IF sh > 0 THEN BShl(p, sh) ELSE p,
                      IF sh < 0 THEN BShl(q, -sh) ELSE q>>),
              e2 - sh)

\* p/q * 2^e2 (p, q > 0) rounded to the nearest binary64, ties to even
RoundRat(neg, p, q, e2) ==
    RoundShift(neg, p, q, e2, 55 - (BBitLen(p) - BBitLen(q)))

\* ma * 2^eb + mb * 2^eb with the signs of a and b
DAddAligned(a, b, ma, mb, eb) ==
    CASE Known(ma) /\ Known(mb) ->
    IF a.neg = b.neg THEN Call("RoundRat", <<a.neg, BAdd(ma, mb), <<1>>, eb>>)
    ELSE IF ma = mb THEN DZero(FALSE)
    ELSE IF BCmp(ma, mb) > 0 THEN Call("RoundRat", <<a.neg, BSub(ma, mb), <<1>>, eb>>)
    ELSE Call("RoundRat", <<b.neg, BSub(mb, ma), <<1>>, eb>>)

\* a + b for finite nonzero a, b with a.e >= b.e; a b that is more than 64
\* bits below a only decides the rounding
DAddNum(a, b) ==
    IF a.e - b.e > 64 THEN DAddAligned(a, b, BShl(a.m, 64), <<1>>, a.e - 64)
    ELSE DAddAligned(a, b, BShl(a.m, a.e - b.e), b.m, b.e)

\* a + b
DAdd(a, b) ==
    IF a.k = "nan" \/ b.k = "nan" THEN DNaN
    ELSE IF a.k = "inf"
         THEN IF b.k = "inf" /\ a.neg # b.neg THEN DNaN ELSE a
    ELSE IF b.k = "inf" THEN b
    ELSE IF a.k = "zero"
         THEN IF b.k = "zero" THEN DZero(a.neg /\ b.neg) ELSE b
    ELSE IF b.k = "zero" THEN a
    ELSE IF a.e >= b.e THEN Call("DAddNum", <<a, b>>) ELSE Call("DAddNum", <<b, a>>)

DNeg(a) == IF a.k = "nan" THEN a ELSE [a EXCEPT !.neg = ~a.neg]

\* a - b
DSub(a, b) == Call("DAdd", <<a, DNeg(b)>>)

\* a * b
DMul(a, b) ==
    IF a.k = "nan" \/ b.k = "nan" THEN DNaN
    ELSE IF a.k = "inf" \/ b.k = "inf"
         THEN IF a.k = "zero" \/ b.k = "zero" THEN DNaN ELSE DInf(a.neg # b.neg)
    ELSE IF a.k = "zero" \/ b.k = "zero" THEN DZero(a.neg # b.neg)
    ELSE Call("RoundRat", <<a.neg # b.neg, Call("BMul", <<a.m, b.m>>), <<1>>, a.e + b.e>>)

\* a / b
DDiv(a, b) ==
    IF a.k = "nan" \/ b.k = "nan" THEN DNaN
    ELSE IF a.k = "inf"
         THEN IF b.k = "inf" THEN DNaN ELSE DInf(a.neg # b.neg)
    ELSE IF b.k = "inf" THEN DZero(a.neg # b.neg)
    ELSE IF b.k = "zero"
         THEN IF a.k = "zero" THEN DNaN ELSE DInf(a.neg # b.neg)
    ELSE IF a.k = "zero" THEN DZero(a.neg # b.neg)
    ELSE Call("RoundRat", <<a.neg # b.neg, a.m, b.m, a.e - b.e>>)

\* |a| >= |b| for finite nonzero a, b
DAbsGeNum(a, b) ==
    LET la == BBitLen(a.m) + a.e
        lb == BBitLen(b.m) + b.e
    IN  IF la # lb THEN la > lb
        ELSE IF a.e >= b.e THEN BCmp(BShl(a.m, a.e - b.e), b.m) >= 0
        ELSE BCmp(a.m, BShl(b.m, b.e - a.e)) >= 0

\* Math.abs(a) >= Math.abs(b)   (false when either is NaN)
DAbsGe(a, b) ==
    IF a.k = "nan" \/ b.k = "nan" THEN FALSE
    ELSE IF a.k = "inf" THEN TRUE
    ELSE IF b.k = "inf" THEN FALSE
    ELSE IF b.k = "zero" THEN TRUE
    ELSE IF a.k = "zero" THEN FALSE
    ELSE Call("DAbsGeNum", <<a, b>>)

isNaN(a) == a.k = "nan"

isFinite(a) == a.k \in {"num", "zero"}

(***************************************************************************)
(* Strings and the conversions between strings and numbers.                *)
(***************************************************************************)
Digits == {"0", "1", "2", "3", "4", "5", "6", "7", "8", "9"}

DigitSeq == <<"0", "1", "2", "3", "4", "5", "6", "7", "8", "9">>

DigitVal(c) == CHOOSE d \in 0..9 : DigitSeq[d + 1] = c

DigitChar(d) == DigitSeq[d + 1]

\* \s of a regular expression, and the white space parseFloat skips
WhiteSpace == {" ", "\t", "\n", "\r", "U+00A0"}

CharAt(s, i) == IF 1 <= i /\ i <= Len(s) THEN s[i] ELSE ""

\* the first index from i on at which s has no character of S
RunEnd(s, i, S) ==
    LET bad == {j \in i..Len(s) : s[j] \notin S}
    IN  IF bad = {} THEN Len(s) + 1 ELSE MinOf(bad)

\* s.slice(i - 1, j) for 1 <= i
Slice(s, i, j) == SubSeq(s, i, Min(j, Len(s)))

Zeros(n) == SubSeq([i \in 1..n |-> "0"], 1, n)

\* the decimal digits of 0 <= n < 10^9, without leading zeros
IntToStr(n) ==
    LET k == IF n = 0 THEN 1 ELSE 1 + MaxOf({j \in 0..9 : 10 ^ j <= n})
    IN  SubSeq([i \in 1..k |-> DigitChar((n \div (10 ^ (k - i))) % 10)], 1, k)

\* the value of the four digits of ds that end at position i
Chunk4(ds, i) ==
    LET dv(j) == IF 1 <= j /\ j <= Len(ds) THEN DigitVal(ds[j]) ELSE 0
    IN  dv(i - 3) * 1000 + dv(i - 2) * 100 + dv(i - 1) * 10 + dv(i)

\* Chunk4 number j from the right, times 10^(4(j-1))
ChunkTerm(ds, j) ==
    CASE Known(ds) ->
    IF 4 * (j - 1) >= Len(ds) THEN <<>>
    ELSE BMulSmall(Call("BPow10", <<4 * (j - 1)>>), Chunk4(ds, Len(ds) - 4 * (j - 1)))

\* the number written by at most 32 decimal digits
DigitsToBig32(ds) ==
    BAdd(BAdd(BAdd(Call("ChunkTerm", <<ds, 1>>), Call("ChunkTerm", <<ds, 2>>)),
              BAdd(Call("ChunkTerm", <<ds, 3>>), Call("ChunkTerm", <<ds, 4>>))),
         BAdd(BAdd(Call("ChunkTerm", <<ds, 5>>), Call("ChunkTerm", <<ds, 6>>)),
              BAdd(Call("ChunkTerm", <<ds, 7>>), Call("ChunkTerm", <<ds, 8>>))))

RECURSIVE DigitsToBig(_)
DigitsToBig(ds) ==
    IF Len(ds) <= 32 THEN DigitsToBig32(ds)
    ELSE BAdd(Call("BMul", <<Call("DigitsToBig", <<SubSeq(ds, 1, Len(ds) - 32)>>), Call("BPow10", <<32>>)>>),
              DigitsToBig32(SubSeq(ds, Len(ds) - 31, Len(ds))))

\* D * 10^x10 as a number, D written with nd digits
DecimalBig(neg, D, nd, x10) ==
    IF D = <<>> THEN DZero(neg)
    ELSE IF x10 > 310 THEN DInf(neg)
    ELSE IF x10 + nd < -330 THEN DZero(neg)
    ELSE IF x10 >= 0 THEN Call("RoundRat", <<neg, Call("BMul", <<D, Call("BPow10", <<x10>>)>>), <<1>>, 0>>)
    ELSE Call("RoundRat", <<neg, D, Call("BPow10", <<-x10>>), 0>>)

\* digits * 10^x10 as a number
DecimalToNum(neg, ds, x10) ==
    CASE Known(ds) -> Call("DecimalBig", <<neg, Call("DigitsToBig", <<ds>>), Len(ds), x10>>)

InfinityStr == <<"I", "n", "f", "i", "n", "i", "t", "y">>

NaNStr == <<"N", "a", "N">>

\* the value of the exponent digits ed
ExpVal(ed, eneg) ==
    (IF eneg THEN -1 ELSE 1)
    * (IF \E i \in 1..(Len(ed) - 4) : ed[i] # "0" THEN 9999 ELSE Chunk4(ed, Len(ed)))

\* s[k1..k2-1] are the digits after e, e+ or e-
ParseExpDigits(s, neg, ds, fl, eneg, k1, k2) ==
    IF k2 = k1 THEN Call("DecimalToNum", <<neg, ds, -fl>>)
    ELSE Call("DecimalToNum", <<neg, ds, ExpVal(SubSeq(s, k1, k2 - 1), eneg) - fl>>)

ParseExpSign(s, neg, ds, fl, k1) ==
    ParseExpDigits(s, neg, ds, fl, CharAt(s, k1 - 1) = "-", k1, RunEnd(s, k1, Digits))

\* ds are the digits of the significand, the last fl of them after the
\* point; s[j2] is the character after them
ParseExp(s, neg, ds, fl, j2) ==
    IF CharAt(s, j2) \notin {"e", "E"} THEN Call("DecimalToNum", <<neg, ds, -fl>>)
    ELSE IF CharAt(s, j2 + 1) \in {"+", "-"} THEN ParseExpSign(s, neg, ds, fl, j2 + 2)
    ELSE ParseExpDigits(s, neg, ds, fl, FALSE, j2 + 1, RunEnd(s, j2 + 1, Digits))

\* ip are the integer digits, s[f1..j2-1] the fraction digits
ParseMant(s, neg, ip, f1, j2) ==
    IF ip = <<>> /\ f1 = j2 THEN DNaN
    ELSE ParseExp(s, neg, ip \o SubSeq(s, f1, j2 - 1), j2 - f1, j2)

\* s[i1..j1-1] are the integer digits
ParseFrac(s, neg, i1, j1) ==
    IF CharAt(s, j1) = "."
    THEN ParseMant(s, neg, SubSeq(s, i1, j1 - 1), j1 + 1, RunEnd(s, j1 + 1, Digits))
    ELSE ParseMant(s, neg, SubSeq(s, i1, j1 - 1), j1, j1)

ParseUnsigned(s, neg, i1) ==
    IF Slice(s, i1, i1 + 7) = InfinityStr THEN DInf(neg)
    ELSE ParseFrac(s, neg, i1, RunEnd(s, i1, Digits))

ParseSigned(s, i0) ==
    IF CharAt(s, i0) \in {"+", "-"} THEN Call("ParseUnsigned", <<s, CharAt(s, i0) = "-", i0 + 1>>)
    ELSE Call("ParseUnsigned", <<s, FALSE, i0>>)

\* parseFloat(s): the longest prefix of s (after white space) that is a
\* decimal literal, NaN if there is none
parseFloat(s) == Call("ParseSigned", <<s, RunEnd(s, 1, WhiteSpace)>>)

\* whether |a| >= 10^c, for finite nonzero a
GePow10(a, c) ==
    CASE Known(a) ->
    BCmp(Call("BMul", <<BShl(a.m, Max(a.e, 0)), Call("BPow10", <<Max(-c, 0)>>)>>),
         BShl(Call("BPow10", <<Max(c, 0)>>), Max(-a.e, 0))) >= 0

Log10Near(a, est) ==
    IF ~GePow10(a, est) THEN est - 1
    ELSE IF GePow10(a, est + 1) THEN est + 1 ELSE est

\* floor(log10 |a|) for finite nonzero a
Log10Floor(a) == Log10Near(a, ((BBitLen(a.m) + a.e - 1) * 30103) \div 100000)

ScaledOut(d, den) == CASE Known(d) -> [q |-> d.q, r |-> d.r, den |-> den]

ScaledDiv(num, den) ==
    CASE Known(num) /\ Known(den) -> ScaledOut(Call("BDivMod", <<num, den>>), den)

\* |a| * 10^t as the quotient and remainder of a division of naturals
Scaled(a, t) ==
    CASE Known(a) ->
    ScaledDiv(Call("BMul", <<BShl(a.m, Max(a.e, 0)), Call("BPow10", <<Max(t, 0)>>)>>),
              BShl(Call("BPow10", <<Max(-t, 0)>>), Max(-a.e, 0)))

\* (n div 10^(4(j-1))) mod 10^4
ChunkOf(n, j) ==
    BToInt(Call("BDivMod", <<Call("BDivMod", <<n, Call("BPow10", <<4 * (j - 1)>>)>>).q, <<10000>>>>).r)

DigitsOfChunks(ch, p) ==
    CASE Known(ch) ->
    SubSeq([i \in 1..p |->
               DigitChar((ch[(p - i) \div 4 + 1] \div (10 ^ ((p - i) % 4))) % 10)], 1, p)

\* the decimal digits of a natural below 10^p, as p characters
BigToDigits(n, p) ==
    CASE Known(n) ->
    DigitsOfChunks(SubSeq([j \in 1..((p + 3) \div 4) |-> ChunkOf(n, j)],
                          1, (p + 3) \div 4), p)

ToDecimalOut(n, p, e10) ==
    IF n = Call("BPow10", <<p>>) THEN [n |-> Call("BPow10", <<p - 1>>), e |-> e10 + 1]
    ELSE [n |-> n, e |-> e10]

ToDecimalRound(sc, p, e10) ==
    CASE Known(sc) ->
    IF BCmp(BShl(sc.r, 1), sc.den) >= 0 THEN ToDecimalOut(BAdd(sc.q, <<1>>), p, e10)
    ELSE ToDecimalOut(sc.q, p, e10)

ToDecimalAt(a, p, e10) == CASE Known(e10) -> ToDecimalRound(Scaled(a, p - 1 - e10), p, e10)

\* n and e with 10^(p-1) <= n < 10^p and n * 10^(e-p+1) as close to |a| as
\* possible, the larger n of two equally close ones (toPrecision,
\* toExponential)
ToDecimal(a, p) == ToDecimalAt(a, p, Call("Log10Floor", <<a>>))

ExponentStr(e) ==
    <<"e">> \o (IF e < 0 THEN <<"-">> \o IntToStr(-e) ELSE <<"+">> \o IntToStr(e))

\* d.ddd e+x
ExpForm(ds, e) ==
    (IF Len(ds) = 1 THEN ds ELSE <<ds[1], ".">> \o Tail(ds)) \o ExponentStr(e)

\* digits with the decimal point placed for the decimal exponent e
FixedForm(ds, e) ==
    IF e >= Len(ds) - 1 THEN ds \o Zeros(e + 1 - Len(ds))
    ELSE IF e >= 0 THEN SubSeq(ds, 1, e + 1) \o <<".">> \o SubSeq(ds, e + 2, Len(ds))
    ELSE <<"0", ".">> \o Zeros(-(e + 1)) \o ds

SignStr(a) == IF a.neg THEN <<"-">> ELSE <<>>

PrecisionForm(a, p, d) ==
    CASE Known(d) ->
    IF d.e < -6 \/ d.e >= p THEN SignStr(a) \o Call("ExpForm", <<Call("BigToDigits", <<d.n, p>>), d.e>>)
    ELSE SignStr(a) \o FixedForm(Call("BigToDigits", <<d.n, p>>), d.e)

\* Number.prototype.toPrecision(p)
toPrecision(a, p) ==
    IF a.k = "nan" THEN NaNStr
    ELSE IF a.k = "inf" THEN SignStr(a) \o InfinityStr
    ELSE IF a.k = "zero" THEN FixedForm(Zeros(p), 0)
    ELSE Call("PrecisionForm", <<a, p, Call("ToDecimal", <<a, p>>)>>)

ExponentialForm(a, f, d) ==
    CASE Known(d) -> SignStr(a) \o Call("ExpForm", <<Call("BigToDigits", <<d.n, f + 1>>), d.e>>)

\* Number.prototype.toExponential(f)
toExponential(a, f) ==
    IF a.k = "nan" THEN NaNStr
    ELSE IF a.k = "inf" THEN SignStr(a) \o InfinityStr
    ELSE IF a.k = "zero" THEN Call("ExpForm", <<Zeros(f + 1), 0>>)
    ELSE Call("ExponentialForm", <<a, f, Call("ToDecimal", <<a, f + 1>>)>>)

\* whether the decimal n * 10^(e10-k+1) reads back as |a|
ReadsBack(a, n, k, e10) ==
    Call("DecimalBig", <<FALSE, n, k + 1, e10 - k + 1>>) = [a EXCEPT !.neg = FALSE]

ShortChoose(sc, okLo, okHi) ==
    IF ~okLo /\ ~okHi THEN <<>>
    ELSE IF okHi /\ (~okLo \/ BCmp(BShl(sc.r, 1), sc.den) > 0
                           \/ (BShl(sc.r, 1) = sc.den /\ BBit(sc.q, 0) = 1))
         THEN <<BAdd(sc.q, <<1>>)>>
    ELSE <<sc.q>>

ShortPick(a, e10, k, sc) ==
    CASE Known(sc) ->
    ShortChoose(sc, ReadsBack(a, sc.q, k, e10), ReadsBack(a, BAdd(sc.q, <<1>>), k, e10))

\* The k-digit decimal next to |a| that reads back as a, if there is one:
\* the choice of Number::toString among the decimals of k digits.
ShortCands(a, e10, k) == ShortPick(a, e10, k, Scaled(a, k - 1 - e10))

\* digits without trailing zeros
StripZeros(ds) == SubSeq(ds, 1, MaxOf({i \in 1..Len(ds) : i = 1 \/ ds[i] # "0"}))

NumberForm(a, sd, e) ==
    IF e >= -6 /\ e < 21 THEN SignStr(a) \o FixedForm(sd, e)
    ELSE SignStr(a) \o Call("ExpForm", <<sd, e>>)

\* raw has k+1 digits: a leading 0, or 1 and k zeros
ShortForm(a, k, e10, raw) ==
    CASE Known(raw) ->
    IF raw[1] = "0" THEN NumberForm(a, StripZeros(Tail(raw)), e10)
    ELSE NumberForm(a, StripZeros(SubSeq(raw, 1, k)), e10 + 1)

\* the digits of the candidate with k digits
ShortDigits(a, e10, k) ==
    CASE Known(k) -> ShortForm(a, k, e10, Call("BigToDigits", <<Call("ShortCands", <<a, e10, k>>)[1], k + 1>>))

\* the least number of digits that read back as a; 17 always do
ShortestAt(a, e10) ==
    CASE Known(e10) ->
    ShortDigits(a, e10, CHOOSE j \in 1..17 :
                            /\ Call("ShortCands", <<a, e10, j>>) # <<>>
                            /\ j = 1 \/ Call("ShortCands", <<a, e10, j - 1>>) = <<>>)

\* whether a is an integer below 2^53 in magnitude
IsSafeInteger(a) == a.e <= 0 /\ a.e >= -52 /\ BLowZero(a.m, -a.e)

\* the digits of the integer n < 10^16
IntegerDigits(n) ==
    CASE Known(n) ->
    SubSeq(Call("BigToDigits", <<n, 16>>), RunEnd(Call("BigToDigits", <<n, 16>>), 1, {"0"}), 16)

\* the digits of a safe integer: every integer of that size is a number of
\* its own, so no shorter decimal reads back as a than its digits up to the
\* last one that is not 0, and the zeros after that are written out below
\* 10^21
SafeIntegerForm(a) == SignStr(a) \o IntegerDigits(BShr(a.m, -a.e))

\* Number.prototype.toString()
toString(a) ==
    IF a.k = "nan" THEN NaNStr
    ELSE IF a.k = "inf" THEN SignStr(a) \o InfinityStr
    ELSE IF a.k = "zero" THEN <<"0">>
    ELSE IF IsSafeInteger(a) THEN Call("SafeIntegerForm", <<a>>)
    ELSE Call("ShortestAt", <<a, Call("Log10Floor", <<a>>)>>)

(***************************************************************************)
(* Calculator (src/src/calculator.js).  this.state is the variable state,  *)
(* a record with the fields current, previous, operator, overwrite and     *)
(* expression.  Every method is an operator from the state before the call *)
(* to [st |-> the state after it, ret |-> what it returns or throws].      *)
(***************************************************************************)
\* null (and undefined): a value that is no string
Null == <<"null">>

ErrorStr == <<"E", "r", "r", "o", "r">>

DivZeroStr ==
    <<"C", "a", "n", "n", "o", "t", " ", "d", "i", "v", "i", "d", "e", " ", "b", "y", " ", "z", "e", "r", "o">>

InvalidExpressionStr ==
    <<"I", "n", "v", "a", "l", "i", "d", " ", "e", "x", "p", "r", "e", "s", "s", "i", "o", "n">>

InvalidResultStr ==
    <<"I", "n", "v", "a", "l", "i", "d", " ", "r", "e", "s", "u", "l", "t">>

InvalidDigitStr == <<"I", "n", "v", "a", "l", "i", "d", " ", "d", "i", "g", "i", "t">>

Times == <<"U+00D7">>

Divide == <<"U+00F7">>

\* a value that counts as true in a condition
Truthy(v) == v # Null /\ v # <<>>

Returns(st, v) == [st |-> st, ret |-> v, threw |-> FALSE]

Throws(st, msg) == [st |-> st, ret |-> msg, threw |-> TRUE]

reset ==
    [current |-> <<"0">>, previous |-> Null, operator |-> Null,
     overwrite |-> FALSE, expression |-> <<>>]

\* the integer that the digits ds write
RECURSIVE DigitsValue(_)
DigitsValue(ds) ==
    IF ds = <<>> THEN 0
    ELSE 10 * DigitsValue(SubSeq(ds, 1, Len(ds) - 1)) + DigitVal(ds[Len(ds)])

IsDigits(ds) == ds # <<>> /\ \A i \in 1..Len(ds) : ds[i] \in Digits

\* a JavaScript number in place of a string: the tag "number" and the
\* characters of its decimal text
IsNumber(v) == v # <<>> /\ v[1] = "number"

\* String(v): the text that a template, a regular expression or parseFloat
\* reads from v
String(v) == IF IsNumber(v) THEN Tail(v) ELSE v

\* a + b: the sum of two numbers, else the texts joined
Plus(a, b) ==
    IF IsNumber(a) /\ IsNumber(b)
    THEN <<"number">> \o IntToStr(DigitsValue(Tail(a)) + DigitsValue(Tail(b)))
    ELSE String(a) \o String(b)

\* the message of the TypeError of a string method called on a number
TypeErrorStr == <<"T", "y", "p", "e", "E", "r", "r", "o", "r">>

\* inputDigit that appends to a leading "0" as to any other text
inputDigitAppending(st, digit) ==
    IF ~(Len(digit) = 1 /\ digit[1] \in Digits) THEN Throws(st, InvalidDigitStr)
    ELSE IF st.overwrite
         THEN Returns([st EXCEPT !.current = digit, !.overwrite = FALSE], Null)
    ELSE IF Len(st.current) >= 12 THEN Returns(st, Null)
    ELSE Returns([st EXCEPT !.current = st.current \o digit], Null)

\* inputDigit without the limit on the length of current
inputDigitUnlimited(st, digit) ==
    IF ~(Len(digit) = 1 /\ digit[1] \in Digits) THEN Throws(st, InvalidDigitStr)
    ELSE IF st.overwrite
         THEN Returns([st EXCEPT !.current = digit, !.overwrite = FALSE], Null)
    ELSE IF st.current = <<"0">> THEN Returns([st EXCEPT !.current = digit], Null)
    ELSE Returns([st EXCEPT !.current = st.current \o digit], Null)

\* the test of line 30 reads String(digit); a number has no length
inputDigit(st, digit) ==
    IF ~(Len(String(digit)) = 1 /\ String(digit)[1] \in Digits) THEN Throws(st, InvalidDigitStr)
    ELSE IF st.overwrite
         THEN Returns([st EXCEPT !.current = digit, !.overwrite = FALSE], Null)
    ELSE IF ~IsNumber(st.current) /\ Len(st.current) >= 12 THEN Returns(st, Null)
    ELSE IF st.current = <<"0">> THEN Returns([st EXCEPT !.current = digit], Null)
    ELSE Returns([st EXCEPT !.current = Plus(st.current, digit)], Null)

\* inputDot that appends whether or not there is a dot
inputDotAlways(st) ==
    IF st.overwrite
    THEN Returns([st EXCEPT !.current = <<"0", ".">>, !.overwrite = FALSE], Null)
    ELSE Returns([st EXCEPT !.current = st.current \o <<".">>], Null)

inputDot(st) ==
    IF st.overwrite
    THEN Returns([st EXCEPT !.current = <<"0", ".">>, !.overwrite = FALSE], Null)
    ELSE IF IsNumber(st.current) THEN Throws(st, TypeErrorStr)
    ELSE IF \A i \in 1..Len(st.current) : st.current[i] # "."
         THEN Returns([st EXCEPT !.current = st.current \o <<".">>], Null)
    ELSE Returns(st, Null)

One == Call("DecimalToNum", <<FALSE, <<"1">>, 0>>)

Hundred == Call("DecimalToNum", <<FALSE, <<"1">>, 2>>)

D1e12 == Call("DecimalToNum", <<FALSE, <<"1">>, 12>>)

D1eMinus12 == Call("DecimalToNum", <<FALSE, <<"1">>, -12>>)

\* the formatting without the exponential notation
FormatNumPlain(num) ==
    Call("toString", <<Call("parseFloat", <<Call("toPrecision", <<num, 12>>)>>)>>)

\* the display form of num: the formatting of formatNumber
FormatNum(num) ==
    IF DAbsGe(num, D1e12) THEN Call("toExponential", <<num, 6>>)
    ELSE IF ~DAbsGe(num, D1eMinus12) /\ num.k # "zero" THEN Call("toExponential", <<num, 6>>)
    ELSE Call("toString", <<Call("parseFloat", <<Call("toPrecision", <<num, 12>>)>>)>>)

FormatParsed(st, num) ==
    CASE Known(num) ->
    IF Call("isNaN", <<num>>) THEN st ELSE [st EXCEPT !.current = Call("FormatNum", <<num>>)]

formatNumber(st) == CASE Known(st) -> FormatParsed(st, Call("parseFloat", <<st.current>>))

\* inputPercent without the test of the parsed value
PercentOfUnchecked(st, cur) ==
    Returns(Call("formatNumber", <<[st EXCEPT !.current = Call("toString", <<Call("DDiv", <<cur, Hundred>>)>>)]>>), Null)

PercentOf(st, cur) ==
    CASE Known(cur) ->
    IF Call("isNaN", <<cur>>) THEN Returns(st, Null)
    ELSE Returns(Call("formatNumber", <<[st EXCEPT !.current = Call("toString", <<Call("DDiv", <<cur, Hundred>>)>>)]>>), Null)

inputPercent(st) == PercentOf(st, Call("parseFloat", <<String(st.current)>>))

\* toggleSign without the test for "0"
toggleSignOfZero(st) ==
    IF CharAt(st.current, 1) = "-"
    THEN Returns([st EXCEPT !.current = Tail(st.current)], Null)
    ELSE Returns([st EXCEPT !.current = <<"-">> \o st.current], Null)

toggleSign(st) ==
    IF st.current = <<"0">> THEN Returns(st, Null)
    ELSE IF IsNumber(st.current) THEN Throws(st, TypeErrorStr)
    ELSE IF CharAt(st.current, 1) = "-"
         THEN Returns([st EXCEPT !.current = Tail(st.current)], Null)
    ELSE Returns([st EXCEPT !.current = <<"-">> \o st.current], Null)

\* clearAll that resets the entry only
clearAllEntry(st) == Returns([st EXCEPT !.current = <<"0">>, !.overwrite = FALSE], Null)

clearAll(st) == Returns(reset, Null)

\* clearEntry that leaves overwrite as it is
clearEntryKeepingOverwrite(st) == Returns([st EXCEPT !.current = <<"0">>], Null)

clearEntry(st) == Returns([st EXCEPT !.current = <<"0">>, !.overwrite = FALSE], Null)

\* the completion of compute with the expression built after current holds
\* the result
ComputeResultLateExpression(st, result) ==
    [Call("formatNumber", <<[st EXCEPT !.current = Call("toString", <<result>>)]>>)
        EXCEPT !.expression = st.previous \o <<" ">> \o st.operator \o <<" ">>
                                \o Call("formatNumber", <<[st EXCEPT !.current = Call("toString", <<result>>)]>>).current,
               !.operator = Null,
               !.previous = Null,
               !.overwrite = TRUE]

\* the completion of compute without the write of overwrite
ComputeResultKeepingOverwrite(st, result) ==
    [Call("formatNumber", <<[st EXCEPT !.current = Call("toString", <<result>>)]>>)
        EXCEPT !.expression = st.previous \o <<" ">> \o st.operator \o <<" ">> \o st.current,
               !.operator = Null,
               !.previous = Null]

\* the state after a result was produced: lines 168-176
ComputeResult(st, result) ==
    CASE Known(result) ->
    [Call("formatNumber", <<[st EXCEPT !.current = Call("toString", <<result>>)]>>)
        EXCEPT !.expression = String(st.previous) \o <<" ">> \o st.operator \o <<" ">> \o String(st.current),
               !.operator = Null,
               !.previous = Null,
               !.overwrite = TRUE]

\* the switch that clears operator and previous when an operand does not
\* parse
ComputeSwitchClearing(st, prev, cur) ==
    IF Call("isNaN", <<prev>>) \/ Call("isNaN", <<cur>>)
    THEN [st EXCEPT !.current = ErrorStr, !.operator = Null, !.previous = Null]
    ELSE IF st.operator = Divide
         THEN IF cur.k = "zero"
              THEN [st EXCEPT !.current = DivZeroStr, !.operator = Null, !.previous = Null]
              ELSE Call("ComputeResult", <<st, Call("DDiv", <<prev, cur>>)>>)
    ELSE [st EXCEPT !.current = ErrorStr]

\* the switch without the test for a zero divisor
ComputeSwitchUnchecked(st, prev, cur) ==
    IF Call("isNaN", <<prev>>) \/ Call("isNaN", <<cur>>) THEN [st EXCEPT !.current = ErrorStr]
    ELSE IF st.operator = <<"+">> THEN Call("ComputeResult", <<st, Call("DAdd", <<prev, cur>>)>>)
    ELSE IF st.operator = <<"-">> THEN Call("ComputeResult", <<st, Call("DSub", <<prev, cur>>)>>)
    ELSE IF st.operator = Times THEN Call("ComputeResult", <<st, Call("DMul", <<prev, cur>>)>>)
    ELSE IF st.operator = Divide THEN Call("ComputeResult", <<st, Call("DDiv", <<prev, cur>>)>>)
    ELSE [st EXCEPT !.current = ErrorStr]

\* the switch on the operator: lines 144-166
ComputeSwitch(st, prev, cur) ==
    CASE Known(prev) /\ Known(cur) ->
    IF Call("isNaN", <<prev>>) \/ Call("isNaN", <<cur>>) THEN [st EXCEPT !.current = ErrorStr]
    ELSE IF st.operator = <<"+">> THEN Call("ComputeResult", <<st, Call("DAdd", <<prev, cur>>)>>)
    ELSE IF st.operator = <<"-">> THEN Call("ComputeResult", <<st, Call("DSub", <<prev, cur>>)>>)
    ELSE IF st.operator = Times THEN Call("ComputeResult", <<st, Call("DMul", <<prev, cur>>)>>)
    ELSE IF st.operator = Divide
         THEN IF cur.k = "zero"
              THEN [st EXCEPT !.current = DivZeroStr, !.operator = Null, !.previous = Null]
              ELSE Call("ComputeResult", <<st, Call("DDiv", <<prev, cur>>)>>)
    ELSE [st EXCEPT !.current = ErrorStr]

\* compute() without its first return
ComputeStateUnguarded(st) ==
    ComputeSwitch(st, Call("parseFloat", <<String(st.previous)>>),
                  Call("parseFloat", <<String(st.current)>>))

\* the state after compute(); nothing in the try block can throw
ComputeState(st) ==
    IF ~Truthy(st.operator) \/ st.previous = Null THEN st
    ELSE ComputeSwitch(st, Call("parseFloat", <<String(st.previous)>>),
                       Call("parseFloat", <<String(st.current)>>))

compute(st) == Returns(ComputeState(st), Null)

\* lines 74-80, on the state after the chained compute
SetPending(st, operator) ==
    [st EXCEPT !.previous = st.current,
               !.operator = operator,
               !.overwrite = TRUE,
               !.expression = String(st.current) \o <<" ">> \o operator]

\* setOperator that drops the chained compute
setOperatorUnchained(st, operator) == Returns(SetPending(st, operator), Null)

\* setOperator that computes whenever an operator is pending
setOperatorAlwaysChained(st, operator) ==
    IF Truthy(st.operator)
    THEN Returns(SetPending(ComputeState(st), operator), Null)
    ELSE Returns(SetPending(st, operator), Null)

setOperator(st, operator) ==
    IF Truthy(st.operator) /\ ~st.overwrite
    THEN Returns(SetPending(ComputeState(st), operator), Null)
    ELSE Returns(SetPending(st, operator), Null)

getCurrentDisplay(st) == st.current

getExpression(st) == st.expression

(***************************************************************************)
(* evaluate of mathjs, as evaluateExpression calls it (calculator.js line  *)
(* 197), for text made of numbers, + - * / ( ) and blanks: unary + and -,  *)
(* * and / before + and -, a parenthesis (or a number after a parenthesis) *)
(* that follows an operand multiplies implicitly, and a/b(c) is (a/b)*(c). *)
(* Any other character is a syntax error or an undefined symbol: evaluate  *)
(* throws.  A node is [ok, v, i, kind]: the value, the index of the next   *)
(* token and the kind of node ("const", "uconst", "op" or "paren").        *)
(***************************************************************************)
Blank == {" ", "\t"}

NoNode == [ok |-> FALSE, v |-> DNaN, i |-> 0, kind |-> "none"]

Node(v, i, kind) == [ok |-> TRUE, v |-> v, i |-> i, kind |-> kind]

\* the index of the next token from i on
SkipBlank(s, i) == RunEnd(s, i, Blank)

\* a "." that belongs to a number rather than to the operators ./ and .*
isDecimalMark(s, i) == CharAt(s, i) = "." /\ CharAt(s, i + 1) \notin {"/", "*", "^"}

\* a number starts at s[i]
NumberAhead(s, i) ==
    \/ CharAt(s, i) \in Digits
    \/ CharAt(s, i) = "." /\ CharAt(s, i + 1) \in Digits

\* the end of the exponent digits that start at s[k], 0 for a syntax error
ExponentEnd(s, k, j) ==
    IF CharAt(s, k) \notin Digits THEN 0
    ELSE IF isDecimalMark(s, j) THEN 0
    ELSE j

\* the end of the number whose significand ends before s[j], 0 for a syntax
\* error; a letter e that starts no exponent is a symbol, which is an error
\* here as well
NumberExponent(s, j) ==
    IF CharAt(s, j) \notin {"e", "E"} THEN j
    ELSE IF CharAt(s, j + 1) \in Digits
         THEN ExponentEnd(s, j + 1, RunEnd(s, j + 1, Digits))
    ELSE IF CharAt(s, j + 1) \in {"+", "-"}
         THEN ExponentEnd(s, j + 2, RunEnd(s, j + 2, Digits))
    ELSE 0

NumberFraction(s, j1) ==
    IF isDecimalMark(s, j1) THEN NumberExponent(s, RunEnd(s, j1 + 1, Digits))
    ELSE NumberExponent(s, j1)

\* the index after the number token that starts at s[i], 0 for a syntax error
NumberEnd(s, i) ==
    IF CharAt(s, i) = "." THEN NumberExponent(s, RunEnd(s, i + 1, Digits))
    ELSE NumberFraction(s, RunEnd(s, i, Digits))

NumberToken(s, i, j) ==
    CASE Known(j) ->
    IF j = 0 THEN NoNode
    ELSE Node(Call("parseFloat", <<SubSeq(s, i, j - 1)>>), SkipBlank(s, j), "const")

\* the operator token at s[i], "" if there is none: * / .* ./ + -
MulOpAt(s, i) ==
    IF CharAt(s, i) \in {"*", "/"} THEN CharAt(s, i)
    ELSE IF CharAt(s, i) = "." /\ CharAt(s, i + 1) \in {"*", "/"} THEN CharAt(s, i + 1)
    ELSE ""

MulOpLen(s, i) == IF CharAt(s, i) = "." THEN 2 ELSE 1

Apply(op, l, r, i) ==
    CASE Known(l) /\ Known(r) ->
    IF ~l.ok \/ ~r.ok THEN NoNode
    ELSE IF op = "+" THEN Node(Call("DAdd", <<l.v, r.v>>), i, "op")
    ELSE IF op = "-" THEN Node(Call("DSub", <<l.v, r.v>>), i, "op")
    ELSE IF op = "*" THEN Node(Call("DMul", <<l.v, r.v>>), i, "op")
    ELSE Node(Call("DDiv", <<l.v, r.v>>), i, "op")

\* a unary operator on a constant is still an operand of rule 2
UnaryKind(n) == IF n.kind = "const" THEN "uconst" ELSE "op"

Negate(op, n) ==
    IF ~n.ok THEN NoNode
    ELSE IF op = "-" THEN Node(DNeg(n.v), n.i, UnaryKind(n))
    ELSE Node(n.v, n.i, UnaryKind(n))

\* a parenthesised node whose inner expression ended at the closing ")"
Closed(s, inner) ==
    IF ~inner.ok \/ CharAt(s, inner.i) # ")" THEN NoNode
    ELSE Node(inner.v, SkipBlank(s, inner.i + 1), "paren")

\* rule 2 applies at a "/" after a constant: a number and then a "(" follow
Rule2Ahead(s, i, n) ==
    /\ n.kind \in {"const", "uconst"}
    /\ CharAt(s, i) = "/"
    /\ NumberAhead(s, SkipBlank(s, i + 1))
    /\ Call("NumberEnd", <<s, SkipBlank(s, i + 1)>>) # 0
    /\ CharAt(s, SkipBlank(s, Call("NumberEnd", <<s, SkipBlank(s, i + 1)>>))) = "("

RECURSIVE ParseAddSubtract(_, _), AddSubtractLoop(_, _), ParseMultiplyDivide(_, _),
          MultiplyDivideLoop(_, _), ParseImplicit(_, _), ImplicitLoop(_, _, _),
          ParseRule2(_, _), Rule2Loop(_, _), ParseUnary(_, _), ParsePrimary(_, _)

ParsePrimary(s, i) ==
    IF NumberAhead(s, i) THEN NumberToken(s, i, Call("NumberEnd", <<s, i>>))
    ELSE IF CharAt(s, i) = "(" THEN Closed(s, ParseAddSubtract(s, SkipBlank(s, i + 1)))
    ELSE NoNode

ParseUnary(s, i) ==
    IF CharAt(s, i) \in {"-", "+"}
    THEN Negate(CharAt(s, i), ParseUnary(s, SkipBlank(s, i + 1)))
    ELSE ParsePrimary(s, i)

Rule2Loop(s, n) ==
    CASE Known(n) ->
    IF n.ok /\ Rule2Ahead(s, n.i, n)
    THEN Call("Apply", <<"/", n, ParseUnary(s, SkipBlank(s, n.i + 1)),
               SkipBlank(s, Call("NumberEnd", <<s, SkipBlank(s, n.i + 1)>>))>>)
    ELSE n

ParseRule2(s, i) == Rule2Loop(s, ParseUnary(s, i))

\* node is the product so far, last its last factor
ImplicitLoop(s, node, last) ==
    CASE Known(node) /\ Known(last) ->
    IF ~node.ok \/ ~last.ok THEN NoNode
    ELSE IF \/ CharAt(s, node.i) = "("
            \/ NumberAhead(s, node.i) /\ last.kind = "paren"
         THEN ImplicitLoop(s, Call("Apply", <<"*", node, Call("ParseRule2", <<s, node.i>>),
                                    Call("ParseRule2", <<s, node.i>>).i>>),
                           Call("ParseRule2", <<s, node.i>>))
    ELSE node

ParseImplicit(s, i) ==
    ImplicitLoop(s, Call("ParseRule2", <<s, i>>), Call("ParseRule2", <<s, i>>))

MultiplyDivideLoop(s, l) ==
    CASE Known(l) ->
    IF ~l.ok \/ MulOpAt(s, l.i) = "" THEN l
    ELSE MultiplyDivideLoop(s,
            Call("Apply", <<MulOpAt(s, l.i), l,
                  ParseImplicit(s, SkipBlank(s, l.i + MulOpLen(s, l.i))),
                  ParseImplicit(s, SkipBlank(s, l.i + MulOpLen(s, l.i))).i>>))

ParseMultiplyDivide(s, i) == MultiplyDivideLoop(s, ParseImplicit(s, i))

AddSubtractLoop(s, l) ==
    CASE Known(l) ->
    IF ~l.ok \/ CharAt(s, l.i) \notin {"+", "-"} THEN l
    ELSE AddSubtractLoop(s,
            Call("Apply", <<CharAt(s, l.i), l,
                  ParseMultiplyDivide(s, SkipBlank(s, l.i + 1)),
                  ParseMultiplyDivide(s, SkipBlank(s, l.i + 1)).i>>))

ParseAddSubtract(s, i) == AddSubtractLoop(s, ParseMultiplyDivide(s, i))

\* the whole text must be one expression
EvaluateAll(s, n) ==
    IF n.ok /\ n.i > Len(s) THEN [kind |-> "value", v |-> n.v]
    ELSE [kind |-> "throws", v |-> DNaN]

\* evaluate(s): a number, undefined (for blank text) or an exception
evaluate(s) ==
    IF SkipBlank(s, 1) > Len(s) THEN [kind |-> "undefined", v |-> DNaN]
    ELSE EvaluateAll(s, ParseAddSubtract(s, SkipBlank(s, 1)))

\* the index of the last character of s outside S, 0 if there is none
LastOutside(s, S) == MaxOf({0} \cup {j \in 1..Len(s) : s[j] \notin S})

\* s.trim()
Trim(s) == SubSeq(s, RunEnd(s, 1, WhiteSpace), LastOutside(s, WhiteSpace))

\* s.replace(/\s*=\s*$/, '') where r is the last character that is no blank
StripEqualsAt(s, r) ==
    IF CharAt(s, r) = "="
    THEN SubSeq(s, 1, LastOutside(SubSeq(s, 1, r - 1), WhiteSpace))
    ELSE s

StripEquals(s) == StripEqualsAt(s, LastOutside(s, WhiteSpace))

\* the write of the state with the cleaned text as expression
EvalStoreCleaned(st, expression, formattedResult) ==
    Returns([st EXCEPT !.current = formattedResult,
                       !.expression = Trim(StripEquals(expression)),
                       !.overwrite = TRUE,
                       !.operator = Null,
                       !.previous = Null],
            formattedResult)

EvalStore(st, expression, formattedResult) ==
    CASE Known(formattedResult) ->
    Returns([st EXCEPT !.current = formattedResult,
                       !.expression = expression,
                       !.overwrite = TRUE,
                       !.operator = Null,
                       !.previous = Null],
            formattedResult)

\* the outcome when the state is written before the result is tested
EvalResultStoring(st, expression, result) ==
    CASE Known(result) ->
    IF result.kind = "throws" THEN Returns(st, InvalidExpressionStr)
    ELSE IF result.kind = "undefined" \/ ~isFinite(result.v)
         THEN [EvalStore(st, expression, InvalidResultStr) EXCEPT !.ret = InvalidResultStr]
    ELSE EvalStore(st, expression, Call("FormatNum", <<result.v>>))

\* isFinite(undefined) is false as well
EvalResult(st, expression, result) ==
    CASE Known(result) ->
    IF result.kind = "throws" THEN Returns(st, InvalidExpressionStr)
    ELSE IF result.kind = "undefined" \/ ~isFinite(result.v)
         THEN Returns(st, InvalidResultStr)
    ELSE EvalStore(st, expression, Call("FormatNum", <<result.v>>))

evaluateExpression(st, expression) ==
    IF ~Truthy(expression) THEN Returns(st, InvalidExpressionStr)
    ELSE EvalResult(st, expression, Call("evaluate", <<Trim(StripEquals(expression))>>))

(***************************************************************************)
(* utils/toast.js: the sanitizer of OCR text.                              *)
(***************************************************************************)
OperatorChars == {"+", "-", "*", "/"}

AllowedChars == Digits \cup OperatorChars \cup {"(", ")", "."}

\* the symbol replacements of lines 90-97 and the comma of line 100, on one
\* character
ReplaceSymbol(c) ==
    IF c \in {"U+00D7", "U+2715", "U+2716"} THEN "*"
    ELSE IF c \in {"U+00F7", "U+2215"} THEN "/"
    ELSE IF c \in {"U+2212", "U+2013", "U+2014"} THEN "-"
    ELSE IF c = "," THEN "."
    ELSE c

MapChars(s, F(_)) == SubSeq([i \in 1..Len(s) |-> F(s[i])], 1, Len(s))

\* the indices 1..n as a sequence
Indices(n) == SubSeq([i \in 1..n |-> i], 1, n)

\* the callback that keeps the last operator of the run
CollapsedRunLast(s, i, j) ==
    IF \A k \in i..(j - 1) : s[k] = "-" THEN "-" ELSE s[j - 1]

\* what the callback of line 110 returns for the run s[i..j-1] of operators
CollapsedRun(s, i, j) ==
    IF \A k \in i..(j - 1) : s[k] = "-" THEN "-" ELSE s[i]

\* the replacement of every run of two or more operators: a run starts at i
CollapseOperatorAt(s, i) ==
    IF RunEnd(s, i, OperatorChars) - i >= 2
    THEN CollapsedRun(s, i, RunEnd(s, i, OperatorChars))
    ELSE s[i]

RunStart(s, i, S) == s[i] \notin S \/ i = 1 \/ CharAt(s, i - 1) \notin S

\* the text with its runs of operators left as they are
CollapseOperatorsSkipped(s) == s

CollapseOperators(s) ==
    MapChars(SelectSeq(Indices(Len(s)), LAMBDA i : RunStart(s, i, OperatorChars)),
             LAMBDA i : CollapseOperatorAt(s, i))

CollapseDots(s) ==
    MapChars(SelectSeq(Indices(Len(s)), LAMBDA i : RunStart(s, i, {"."})),
             LAMBDA i : s[i])

\* the removal of a leading operator of any kind
StripLeadingAny(s) ==
    IF CharAt(s, 1) \in OperatorChars THEN SubSeq(s, 2, Len(s)) ELSE s

StripLeading(s) ==
    IF CharAt(s, 1) \in {"+", "*", "/"} THEN SubSeq(s, 2, Len(s)) ELSE s

\* the removal of an operator or a dot at the end
StripTrailingOrDot(s) ==
    IF CharAt(s, Len(s)) \in OperatorChars \cup {"."} THEN SubSeq(s, 1, Len(s) - 1) ELSE s

StripTrailing(s) ==
    IF CharAt(s, Len(s)) \in OperatorChars THEN SubSeq(s, 1, Len(s) - 1) ELSE s

RECURSIVE BalancedFrom(_, _, _)
\* the loop of hasBalancedParentheses from character i on with the count so far
BalancedFrom(text, i, count) ==
    IF count < 0 THEN FALSE
    ELSE IF i > Len(text) THEN count = 0
    ELSE BalancedFrom(text, i + 1,
                      IF text[i] = "(" THEN count + 1
                      ELSE IF text[i] = ")" THEN count - 1
                      ELSE count)

hasBalancedParentheses(text) == BalancedFrom(text, 1, 0)

SanitizeChecked(sanitized) ==
    IF ~hasBalancedParentheses(sanitized) THEN <<>>
    ELSE IF \A i \in 1..Len(sanitized) : sanitized[i] \notin Digits THEN <<>>
    ELSE sanitized

\* the whitelist that removes the other characters
SanitizeAllowedRemoving(sanitized) ==
    IF SelectSeq(sanitized, LAMBDA c : c \in AllowedChars) = <<>>
    THEN <<>>
    ELSE SanitizeChecked(StripTrailing(StripLeading(CollapseDots(CollapseOperators(
             SelectSeq(sanitized, LAMBDA c : c \in AllowedChars))))))

SanitizeAllowed(sanitized) ==
    IF sanitized = <<>> \/ \E i \in 1..Len(sanitized) : sanitized[i] \notin AllowedChars
    THEN <<>>
    ELSE SanitizeChecked(StripTrailing(StripLeading(CollapseDots(CollapseOperators(sanitized)))))

sanitizeExpression(text) ==
    IF ~Truthy(text) THEN <<>>
    ELSE SanitizeAllowed(MapChars(SelectSeq(text, LAMBDA c : c \notin WhiteSpace),
                                  ReplaceSymbol))

\* the display form that leaves every character as it is
DisplaySymbolKept(c) == c

DisplaySymbol(c) == IF c = "*" THEN "U+00D7" ELSE IF c = "/" THEN "U+00F7" ELSE c

normalizeForDisplay(expression) ==
    IF ~Truthy(expression) THEN <<>> ELSE MapChars(expression, DisplaySymbol)

(***************************************************************************)
(* OCRProcessor (src/unnamed/part_001).  this.ocrHistory is a sequence of  *)
(* entries [expression, result], most recent first; the timestamp of an    *)
(* entry, which nothing reads, is left out.  this.maxHistorySize is set    *)
(* once, in the constructor.                                               *)
(***************************************************************************)
maxHistorySize == 3

HistoryEntry(expression, result) == [expression |-> expression, result |-> result]

\* lines 110-112: only the first maxHistorySize entries are kept
KeepRecent(entries) ==
    IF Len(entries) > maxHistorySize THEN SubSeq(entries, 1, maxHistorySize) ELSE entries

\* entries without the entries for expression (line 104)
WithoutExpression(entries, expression) ==
    SelectSeq(entries, LAMBDA entry : entry.expression # expression)

\* the list when the new entry is added at the end
addToHistoryAtEnd(ocrHist, expression, result) ==
    KeepRecent(WithoutExpression(ocrHist, expression) \o <<HistoryEntry(expression, result)>>)

\* the list when the entries for expression are not removed
addToHistoryKeepingAll(ocrHist, expression, result) ==
    KeepRecent(<<HistoryEntry(expression, result)>> \o ocrHist)

\* the list after addToHistory(expression, result)
addToHistory(ocrHist, expression, result) ==
    KeepRecent(<<HistoryEntry(expression, result)>> \o WithoutExpression(ocrHist, expression))

clearHistory(ocrHist) == <<>>

getHistory(ocrHist) == ocrHist

getHistoryExpressions(ocrHist) ==
    SubSeq([i \in 1..Len(ocrHist) |-> ocrHist[i].expression], 1, Len(ocrHist))

\* "OCR already in progress"
BusyMessage ==
    <<"O", "C", "R", " ", "a", "l", "r", "e", "a", "d", "y", " ", "i", "n",
      " ", "p", "r", "o", "g", "r", "e", "s", "s">>

\* "Failed to process with Google Cloud Vision: "
FailedPrefix ==
    <<"F", "a", "i", "l", "e", "d", " ", "t", "o", " ", "p", "r", "o", "c",
      "e", "s", "s", " ", "w", "i", "t", "h", " ", "G", "o", "o", "g", "l",
      "e", " ", "C", "l", "o", "u", "d", " ", "V", "i", "s", "i", "o", "n",
      ":", " ">>

\* "HTTP 500: Internal Server Error"
HttpErrorMessage ==
    <<"H", "T", "T", "P", " ", "5", "0", "0", ":", " ", "I", "n", "t", "e",
      "r", "n", "a", "l", " ", "S", "e", "r", "v", "e", "r", " ", "E", "r",
      "r", "o", "r">>

\* "No mathematical expression found in the image"
NoExpressionMessage ==
    <<"N", "o", " ", "m", "a", "t", "h", "e", "m", "a", "t", "i", "c", "a",
      "l", " ", "e", "x", "p", "r", "e", "s", "s", "i", "o", "n", " ", "f",
      "o", "u", "n", "d", " ", "i", "n", " ", "t", "h", "e", " ", "i", "m",
      "a", "g", "e">>

\* "Could not extract a valid mathematical expression"
NotValidMessage ==
    <<"C", "o", "u", "l", "d", " ", "n", "o", "t", " ", "e", "x", "t", "r",
      "a", "c", "t", " ", "a", " ", "v", "a", "l", "i", "d", " ", "m", "a",
      "t", "h", "e", "m", "a", "t", "i", "c", "a", "l", " ", "e", "x", "p",
      "r", "e", "s", "s", "i", "o", "n">>

\* The part of processImage(file) up to the await of fetch, on the processor
\* proc = [isProcessing, inflight, ocrHistory]: the busy test, the flag and
\* the request, which joins the requests in flight.
processImageUnguarded(proc, file) ==
    [proc |-> [proc EXCEPT !.isProcessing = TRUE, !.inflight = Append(proc.inflight, file)],
     ret |-> Null, threw |-> FALSE]

\* processImage with its busy test inside the try block, so that the
\* finally block runs for the rejected call as well
processImageTestInTry(proc, file) ==
    IF proc.isProcessing
    THEN [proc |-> [proc EXCEPT !.isProcessing = FALSE], ret |-> BusyMessage, threw |-> TRUE]
    ELSE [proc |-> [proc EXCEPT !.isProcessing = TRUE,
                                !.inflight = Append(proc.inflight, file)],
          ret |-> Null, threw |-> FALSE]

processImage(proc, file) ==
    IF proc.isProcessing THEN [proc |-> proc, ret |-> BusyMessage, threw |-> TRUE]
    ELSE [proc |-> [proc EXCEPT !.isProcessing = TRUE,
                                !.inflight = Append(proc.inflight, file)],
          ret |-> Null, threw |-> FALSE]

\* the error that the catch block throws for the error thrown in the try block
Failed(proc, message) == [proc |-> proc, ret |-> FailedPrefix \o message, threw |-> TRUE]

\* lines 69-81, for the text that came back
ProcessSanitized(proc, sanitized) ==
    CASE Known(sanitized) ->
    IF ~Truthy(sanitized) THEN Failed(proc, NotValidMessage)
    ELSE [proc |-> [proc EXCEPT !.ocrHistory = addToHistory(proc.ocrHistory, sanitized, Null)],
          ret |-> [expression |-> sanitized,
                   displayExpression |-> normalizeForDisplay(sanitized)],
          threw |-> FALSE]

\* lines 57-81, for the response [ok, error, expression] of the service; a
\* fetch that fails is a response that is not ok
ProcessResponse(proc, response) ==
    IF ~response.ok
    THEN Failed(proc, IF Truthy(response.error) THEN response.error ELSE HttpErrorMessage)
    ELSE IF ~Truthy(response.expression) THEN Failed(proc, NoExpressionMessage)
    ELSE ProcessSanitized(proc, sanitizeExpression(response.expression))

\* the flag cleared at the end of the try block only
ProcessFinallyInTry(r) == IF r.threw THEN r ELSE [r EXCEPT !.proc.isProcessing = FALSE]

\* the finally block: the flag is cleared however the call ended
ProcessFinally(r) == [r EXCEPT !.proc.isProcessing = FALSE]

\* the rest of the processImage call whose request is inflight[i], when the
\* response of the service arrives
processImageSettle(proc, i, response) ==
    ProcessFinally(ProcessResponse(
        [proc EXCEPT !.inflight = SubSeq(proc.inflight, 1, i - 1)
                                      \o SubSeq(proc.inflight, i + 1, Len(proc.inflight))],
        response))

isCurrentlyProcessing(proc) == proc.isProcessing

(***************************************************************************)
(* UIController (ui.js): the handlers of the calculator buttons, of the    *)
(* keyboard and of the history items, on the state st of the calculator    *)
(* and the history hist.  What a handler writes to the page is left out.   *)
(* An outcome is [st, hist, ret, threw]; threw says that the handler       *)
(* caught an error and showed it.                                          *)
(***************************************************************************)
Handled(r, hist) == [st |-> r.st, hist |-> hist, ret |-> r.ret, threw |-> r.threw]

\* lines 64-71 and 232-239: the completed calculation joins the history
EqualsHandled(r, hist) ==
    Handled(r, IF Truthy(getExpression(r.st))
               THEN addToHistory(hist, getExpression(r.st), getCurrentDisplay(r.st))
               ELSE hist)

\* the click handler of a button with data-action, data-digit, data-operator
calculatorButton(st, hist, button) ==
    CASE button.action = "digit" -> Handled(inputDigit(st, button.digit), hist)
      [] button.action = "dot" -> Handled(inputDot(st), hist)
      [] button.action = "operator" -> Handled(Call("setOperator", <<st, button.operator>>), hist)
      [] button.action = "equals" -> EqualsHandled(Call("compute", <<st>>), hist)
      [] button.action = "clear" -> Handled(clearAll(st), hist)
      [] button.action = "toggleSign" -> Handled(toggleSign(st), hist)
      [] button.action = "percent" -> Handled(Call("inputPercent", <<st>>), hist)
      [] OTHER -> Handled(Returns(st, Null), hist)

\* the operators that lines 225 and 228 pass to setOperator
KeyTimes == <<"U+0E23", "U+0097">>

KeyDivide == <<"U+0E23", "U+0E17">>

KeyEnter == <<"E", "n", "t", "e", "r">>

KeyEscape == <<"E", "s", "c", "a", "p", "e">>

KeyBackspace == <<"B", "a", "c", "k", "s", "p", "a", "c", "e">>

\* the keydown handler for the key e.key
keydown(st, hist, key) ==
    CASE Len(key) = 1 /\ key[1] \in Digits -> Handled(inputDigit(st, key), hist)
      [] key = <<".">> -> Handled(inputDot(st), hist)
      [] key = <<"+">> -> Handled(Call("setOperator", <<st, <<"+">>>>), hist)
      [] key = <<"-">> -> Handled(Call("setOperator", <<st, <<"-">>>>), hist)
      [] key = <<"*">> -> Handled(Call("setOperator", <<st, KeyTimes>>), hist)
      [] key = <<"/">> -> Handled(Call("setOperator", <<st, KeyDivide>>), hist)
      [] key \in {KeyEnter, <<"=">>} -> EqualsHandled(Call("compute", <<st>>), hist)
      [] key = KeyEscape -> Handled(clearAll(st), hist)
      [] key = KeyBackspace -> Handled(clearEntry(st), hist)
      [] key = <<"%">> -> Handled(Call("inputPercent", <<st>>), hist)
      [] OTHER -> Handled(Returns(st, Null), hist)

\* the click handler of the history item with data-history-index = index
historyClick(st, hist, index) ==
    IF index + 1 \in 1..Len(hist)
    THEN Handled(Call("evaluateExpression", <<st, hist[index + 1].expression>>), hist)
    ELSE Handled(Returns(st, Null), hist)

\* "Could not evaluate the expression"
NotEvaluatedMessage ==
    <<"C", "o", "u", "l", "d", " ", "n", "o", "t", " ", "e", "v", "a", "l",
      "u", "a", "t", "e", " ", "t", "h", "e", " ", "e", "x", "p", "r", "e",
      "s", "s", "i", "o", "n">>

\* lines 131-133 of the click handler of the solve button, for the outcome e
\* of evaluateExpression: only "Invalid expression" is an error
SolveEvaluated(proc, e) ==
    CASE Known(e) ->
    IF e.ret = InvalidExpressionStr
    THEN [st |-> e.st, proc |-> proc, ret |-> NotEvaluatedMessage, threw |-> TRUE]
    ELSE [st |-> e.st, proc |-> proc, ret |-> e.ret, threw |-> FALSE]

\* lines 126-145, for the outcome r of processImage: an error of
\* processImage is caught and shown, a result is evaluated
SolveProcessed(st, r) ==
    CASE Known(r) ->
    IF r.threw THEN [st |-> st, proc |-> r.proc, ret |-> r.ret, threw |-> TRUE]
    ELSE SolveEvaluated(r.proc, Call("evaluateExpression", <<st, r.ret.expression>>))

\* the rest of the click handler of the solve button when the response to
\* the request inflight[i] of its processImage call arrives
solveFromImageSettle(st, proc, i, response) ==
    SolveProcessed(st, processImageSettle(proc, i, response))

(***************************************************************************)
(* The operators that are applied through Call.                            *)
(***************************************************************************)
Call(f, args) ==
    CASE f = "RoundRat" -> RoundRat(args[1], args[2], args[3], args[4])
      [] f = "BMul8" -> BMul8(args[1], args[2])
      [] f = "BMul" -> BMul(args[1], args[2])
      [] f = "BDivMod" -> BDivMod(args[1], args[2])
      [] f = "DAddNum" -> DAddNum(args[1], args[2])
      [] f = "BPow10" -> BPow10(args[1])
      [] f = "DecimalBig" -> DecimalBig(args[1], args[2], args[3], args[4])
      [] f = "DigitsToBig" -> DigitsToBig(args[1])
      [] f = "ChunkTerm" -> ChunkTerm(args[1], args[2])
      [] f = "BigToDigits" -> BigToDigits(args[1], args[2])
      [] f = "ToDecimal" -> ToDecimal(args[1], args[2])
      [] f = "ShortCands" -> ShortCands(args[1], args[2], args[3])
      [] f = "ShortestAt" -> ShortestAt(args[1], args[2])
      [] f = "Log10Floor" -> Log10Floor(args[1])
      [] f = "SafeIntegerForm" -> SafeIntegerForm(args[1])
      [] f = "ExpForm" -> ExpForm(args[1], args[2])
      [] f = "PrecisionForm" -> PrecisionForm(args[1], args[2], args[3])
      [] f = "ExponentialForm" -> ExponentialForm(args[1], args[2], args[3])
      [] f = "DAbsGeNum" -> DAbsGeNum(args[1], args[2])
      [] f = "ParseSigned" -> ParseSigned(args[1], args[2])
      [] f = "ParseUnsigned" -> ParseUnsigned(args[1], args[2], args[3])
      [] f = "DecimalToNum" -> DecimalToNum(args[1], args[2], args[3])
      [] f = "parseFloat" -> parseFloat(args[1])
      [] f = "toString" -> toString(args[1])
      [] f = "toPrecision" -> toPrecision(args[1], args[2])
      [] f = "toExponential" -> toExponential(args[1], args[2])
      [] f = "isNaN" -> isNaN(args[1])
      [] f = "DAdd" -> DAdd(args[1], args[2])
      [] f = "DSub" -> DSub(args[1], args[2])
      [] f = "DMul" -> DMul(args[1], args[2])
      [] f = "DDiv" -> DDiv(args[1], args[2])
      [] f = "FormatNum" -> FormatNum(args[1])
      [] f = "formatNumber" -> formatNumber(args[1])
      [] f = "ComputeResult" -> ComputeResult(args[1], args[2])
      [] f = "NumberEnd" -> NumberEnd(args[1], args[2])
      [] f = "Apply" -> Apply(args[1], args[2], args[3], args[4])
      [] f = "ParseRule2" -> ParseRule2(args[1], args[2])
      [] f = "evaluate" -> evaluate(args[1])
      [] f = "evaluateExpression" -> evaluateExpression(args[1], args[2])
      [] f = "inputPercent" -> inputPercent(args[1])
      [] f = "compute" -> compute(args[1])
      [] f = "setOperator" -> setOperator(args[1], args[2])
      [] f = "calculatorButton" -> calculatorButton(args[1], args[2], args[3])
      [] f = "keydown" -> keydown(args[1], args[2], args[3])
      [] f = "historyClick" -> historyClick(args[1], args[2], args[3])

(***************************************************************************)
(* The session as a state machine.                                         *)
(*   state        this.state of the Calculator                             *)
(*   ocrHistory   this.ocrHistory of the OCRProcessor, most recent first   *)
(*   isProcessing this.isProcessing of the OCRProcessor                    *)
(*   inflight     the processImage calls that wait for the OCR service     *)
(*   last         the operation of the last step, its argument, what it    *)
(*                returned (or the message it threw with)                  *)
(*   followed     how many calls of ChainScript the calls so far have      *)
(*                made, in order and with no other call; -1 after a call   *)
(*                that left the script                                     *)
(*   steps        the number of steps taken                                *)
(***************************************************************************)
VARIABLES state, ocrHistory, isProcessing, inflight, last, followed, steps

vars == <<state, ocrHistory, isProcessing, inflight, last, followed, steps>>

Done(op, arg, ret, threw) == [op |-> op, arg |-> arg, ret |-> ret, threw |-> threw]

Init ==
    /\ state = reset
    /\ ocrHistory = <<>>
    /\ isProcessing = FALSE
    /\ inflight = <<>>
    /\ last = Done("new", Null, Null, FALSE)
    /\ followed = 0
    /\ steps = 0

\* the calls of the chaining example: 5 + 3 x 2 =
ChainScript ==
    <<[op |-> "inputDigit", arg |-> <<"5">>], [op |-> "setOperator", arg |-> <<"+">>],
      [op |-> "inputDigit", arg |-> <<"3">>], [op |-> "setOperator", arg |-> Times],
      [op |-> "inputDigit", arg |-> <<"2">>], [op |-> "compute", arg |-> Null]>>

Follows(op, arg) ==
    IF /\ followed >= 0
       /\ followed < Len(ChainScript)
       /\ ChainScript[followed + 1] = [op |-> op, arg |-> arg]
    THEN followed + 1
    ELSE -1

\* one call of a Calculator method whose outcome is r
CalculatorCall(op, arg, r) ==
    /\ state' = r.st
    /\ last' = Done(op, arg, r.ret, r.threw)
    /\ followed' = Follows(op, arg)
    /\ steps' = steps + 1
    /\ UNCHANGED <<ocrHistory, isProcessing, inflight>>

InputDigit(digit) == CalculatorCall("inputDigit", digit, inputDigit(state, digit))

InputDot == CalculatorCall("inputDot", Null, inputDot(state))

SetOperator(operator) ==
    CalculatorCall("setOperator", operator, Call("setOperator", <<state, operator>>))

ToggleSign == CalculatorCall("toggleSign", Null, toggleSign(state))

InputPercent == CalculatorCall("inputPercent", Null, Call("inputPercent", <<state>>))

ClearAll == CalculatorCall("clearAll", Null, clearAll(state))

ClearEntry == CalculatorCall("clearEntry", Null, clearEntry(state))

Compute == CalculatorCall("compute", Null, Call("compute", <<state>>))

EvaluateExpression(expression) ==
    CalculatorCall("evaluateExpression", expression, Call("evaluateExpression", <<state, expression>>))

\* the OCRProcessor as the record that its methods work on
Processor == [isProcessing |-> isProcessing, inflight |-> inflight, ocrHistory |-> ocrHistory]

\* one step of an OCRProcessor method whose outcome is r
ProcessorCall(op, arg, r) ==
    /\ isProcessing' = r.proc.isProcessing
    /\ inflight' = r.proc.inflight
    /\ ocrHistory' = r.proc.ocrHistory
    /\ last' = Done(op, arg, r.ret, r.threw)
    /\ followed' = Follows(op, arg)
    /\ steps' = steps + 1
    /\ UNCHANGED state

\* a call of processImage(file), up to its await
ProcessImage(file) == ProcessorCall("processImage", file, processImage(Processor, file))

\* the response to the request inflight[i] arrives and its call runs to its end
ProcessImageSettle(i, response) ==
    ProcessorCall("processImageSettle", inflight[i], processImageSettle(Processor, i, response))

AddToHistory(expression, result) ==
    ProcessorCall("addToHistory", HistoryEntry(expression, result),
                  [proc |-> [Processor EXCEPT !.ocrHistory =
                                 addToHistory(ocrHistory, expression, result)],
                   ret |-> Null, threw |-> FALSE])

ClearHistory ==
    ProcessorCall("clearHistory", Null,
                  [proc |-> [Processor EXCEPT !.ocrHistory = clearHistory(ocrHistory)],
                   ret |-> Null, threw |-> FALSE])

\* the response to the request inflight[i] arrives and the click handler of
\* the solve button, which made the call, runs to its end
SolveSettle(i, response) ==
    /\ state' = solveFromImageSettle(state, Processor, i, response).st
    /\ isProcessing' = solveFromImageSettle(state, Processor, i, response).proc.isProcessing
    /\ inflight' = solveFromImageSettle(state, Processor, i, response).proc.inflight
    /\ ocrHistory' = solveFromImageSettle(state, Processor, i, response).proc.ocrHistory
    /\ last' = Done("solveFromImage", inflight[i],
                    solveFromImageSettle(state, Processor, i, response).ret,
                    solveFromImageSettle(state, Processor, i, response).threw)
    /\ followed' = Follows("solveFromImage", inflight[i])
    /\ steps' = steps + 1

\* a call of sanitizeExpression(text), which reads and writes no state
SanitizeExpression(text) ==
    /\ last' = Done("sanitizeExpression", text, sanitizeExpression(text), FALSE)
    /\ followed' = Follows("sanitizeExpression", text)
    /\ steps' = steps + 1
    /\ UNCHANGED <<state, ocrHistory, isProcessing, inflight>>

NormalizeForDisplay(expression) ==
    /\ last' = Done("normalizeForDisplay", expression, normalizeForDisplay(expression), FALSE)
    /\ followed' = Follows("normalizeForDisplay", expression)
    /\ steps' = steps + 1
    /\ UNCHANGED <<state, ocrHistory, isProcessing, inflight>>

\* one event whose handler has the outcome r
Event(op, arg, r) ==
    /\ state' = r.st
    /\ ocrHistory' = r.hist
    /\ last' = Done(op, arg, r.ret, r.threw)
    /\ followed' = Follows(op, arg)
    /\ steps' = steps + 1
    /\ UNCHANGED <<isProcessing, inflight>>

Click(button) == Event("click", button, Call("calculatorButton", <<state, ocrHistory, button>>))

KeyDown(key) == Event("keydown", key, Call("keydown", <<state, ocrHistory, key>>))

HistoryClick(index) ==
    Event("historyClick", <<index>>, Call("historyClick", <<state, ocrHistory, index>>))

(***************************************************************************)
(* Chained operations: digits, operators and compute() called in any order *)
(* from the zero state.                                                    *)
(***************************************************************************)
MaxChainSteps == 6

ChainDigits == {<<"2">>, <<"3">>, <<"5">>}

ChainOperators == {<<"+">>, Times}

ChainDigit == steps < MaxChainSteps /\ \E d \in ChainDigits : InputDigit(d)

ChainOperator == steps < MaxChainSteps /\ \E o \in ChainOperators : SetOperator(o)

ChainCompute == steps < MaxChainSteps /\ Compute

NextChain == ChainDigit \/ ChainOperator \/ ChainCompute

SpecChain == Init /\ [][NextChain]_vars

\* the pending operation on integers
Pending(st) ==
    IF st.operator = <<"+">> THEN DigitsValue(st.previous) + DigitsValue(st.current)
    ELSE DigitsValue(st.previous) * DigitsValue(st.current)

\* this step is a call of setOperator with an operation on integers pending
\* and its second operand entered
ChainedStep ==
    /\ last'.op = "setOperator"
    /\ state.operator \in ChainOperators
    /\ ~state.overwrite
    /\ IsDigits(state.previous)
    /\ IsDigits(state.current)

\* C1: an operator set while another is pending and an operand was entered
\* computes the pending operation first, and the result is the new previous
\* operand, with the new operator pending; 5 + 3 x 2 = displays 16
C1_Chaining ==
    /\ [][ChainedStep =>
            /\ state'.previous = IntToStr(Pending(state))
            /\ state'.operator = last'.arg]_vars
    /\ [](followed = Len(ChainScript) => getCurrentDisplay(state) = <<"1", "6">>)

C1_Witness ==
    /\ followed = Len(ChainScript)
    /\ getCurrentDisplay(state) = <<"1", "6">>
    /\ state.expression = <<"8", " ", "U+00D7", " ", "2">>

\* this step is a call of setOperator with an operator pending and no
\* operand entered since it was set
ReplacingStep ==
    /\ last'.op = "setOperator"
    /\ Truthy(state.operator)
    /\ state.overwrite

\* C33: setOperator called with an operator pending and overwrite true
\* computes nothing: current is what it was, previous is that current, the
\* operator is the new one, overwrite is still true and the expression is
\* previous, a blank and the operator; a compute() that is the 5th call and
\* completes 5 x 3, as after 5, +, x, 3, displays 15
C33_OperatorReplaced ==
    /\ [][ReplacingStep =>
            /\ state'.current = state.current
            /\ state'.previous = state.current
            /\ state'.operator = last'.arg
            /\ state'.overwrite
            /\ state'.expression = state'.previous \o <<" ">> \o last'.arg
            /\ ~last'.threw]_vars
    /\ [](/\ steps = 5
          /\ last.op = "compute"
          /\ state.expression = <<"5", " ", "U+00D7", " ", "3">>
          => getCurrentDisplay(state) = <<"1", "5">>)

\* the state after 5, +, x
C33_Witness ==
    /\ steps = 3
    /\ last.op = "setOperator"
    /\ last.arg = Times
    /\ state = [current |-> <<"5">>, previous |-> <<"5">>, operator |-> Times,
                overwrite |-> TRUE, expression |-> <<"5", " ", "U+00D7">>]

(***************************************************************************)
(* Division: digits, the dot, the division operator, compute() and         *)
(* clearAll() called in any order from the zero state.                     *)
(***************************************************************************)
MaxDivSteps == 6

DivDigits == {<<"0">>, <<"5">>}

DivDigit == steps < MaxDivSteps /\ \E d \in DivDigits : InputDigit(d)

DivDot == steps < MaxDivSteps /\ InputDot

DivOperator == steps < MaxDivSteps /\ SetOperator(Divide)

DivCompute == steps < MaxDivSteps /\ Compute

DivClearAll == steps < MaxDivSteps /\ ClearAll

NextDiv == DivDigit \/ DivDot \/ DivOperator \/ DivCompute \/ DivClearAll

SpecDiv == Init /\ [][NextDiv]_vars

\* this step is compute() with a division pending and a current operand
\* whose value is zero
DivideByZeroStep ==
    /\ last'.op = "compute"
    /\ state.operator = Divide
    /\ state.previous # Null
    /\ Call("parseFloat", <<state.current>>).k = "zero"

\* what the claim says of such a step
DivideByZeroOutcome ==
    /\ state'.current = DivZeroStr
    /\ state'.operator = Null
    /\ state'.previous = Null
    /\ state'.expression = state.expression
    /\ last'.ret = Null
    /\ ~last'.threw

ClearAllRestores == last'.op = "clearAll" => state' = reset /\ ~last'.threw

ComputeCompletes(st) ==
    /\ Truthy(st.operator)
    /\ st.previous # Null
    /\ ~Call("isNaN", <<Call("parseFloat", <<st.previous>>)>>)
    /\ ~Call("isNaN", <<Call("parseFloat", <<st.current>>)>>)
    /\ st.operator \in {<<"+">>, <<"-">>, Times, Divide}
    /\ ~(st.operator = Divide /\ Call("parseFloat", <<st.current>>).k = "zero")

\* after this step the flag is set and a digit replaces current
OverwriteSet ==
    /\ state'.overwrite
    /\ \A d \in DivDigits : inputDigit(state', d).st.current = d

\* C12 as amended: overwrite is true immediately after every setOperator
\* and after every compute that completes (operator and previous pending,
\* both operands parse, no division by zero), so that the next inputDigit
\* replaces current
C12_OverwriteAfterResult ==
    [][last'.op = "setOperator" \/ (last'.op = "compute" /\ ComputeCompletes(state))
            => OverwriteSet]_vars

\* C12 as stated: overwrite is true immediately after every setOperator and
\* after every compute, so that the next inputDigit replaces current
C12_AsStated == [][last'.op \in {"setOperator", "compute"} => OverwriteSet]_vars

C12_Witness ==
    /\ last.op = "compute"
    /\ state.overwrite
    /\ state.current = <<"1">>
    /\ state.expression = <<"5", " ", "U+00F7", " ", "5">>
    /\ inputDigit(state, <<"5">>).st.current = <<"5">>

\* C23: compute() with no operator pending or no previous operand changes
\* nothing in the state and does not throw
C23_ComputeNoOp ==
    [][last'.op = "compute" /\ (~Truthy(state.operator) \/ state.previous = Null) =>
            state' = state /\ ~last'.threw]_vars

C23_Witness ==
    /\ last.op = "compute"
    /\ state.operator = Null
    /\ state.previous = Null
    /\ state.current = <<"5", ".", "5">>
    /\ ~state.overwrite

\* this step is compute() with an operator and a previous operand pending
\* and an operand that does not parse as a number
ParseFailureStep ==
    /\ last'.op = "compute"
    /\ Truthy(state.operator)
    /\ state.previous # Null
    /\ \/ Call("isNaN", <<Call("parseFloat", <<String(state.previous)>>)>>)
       \/ Call("isNaN", <<Call("parseFloat", <<String(state.current)>>)>>)

\* C24: compute() with an operator pending and a previous or current operand
\* that does not parse as a number sets current to "Error" and leaves
\* operator, previous, overwrite and expression as they were; clearAll in
\* the state with "Error" restores the zero state
C24_ParseFailure ==
    [][/\ ParseFailureStep =>
              /\ state' = [state EXCEPT !.current = ErrorStr]
              /\ ~last'.threw
       /\ last'.op = "clearAll" /\ state.current = ErrorStr => state' = reset]_vars

C24_Witness ==
    /\ last.op = "compute"
    /\ state.current = ErrorStr
    /\ state.operator = Divide
    /\ state.previous = DivZeroStr

\* the zero state, as the claim writes it
ZeroState ==
    [current |-> <<"0">>, previous |-> Null, operator |-> Null, overwrite |-> FALSE,
     expression |-> <<>>]

\* C25: clearAll in any state, the states with "Error" or "Cannot divide by
\* zero" displayed and the states with an operator pending among them,
\* gives the zero state: current "0", no previous operand, no operator,
\* overwrite false, expression empty
C25_ClearAll == [][last'.op = "clearAll" => state' = ZeroState /\ ~last'.threw]_vars

C25_Witness ==
    /\ last.op = "clearAll"
    /\ state = ZeroState
    /\ steps = MaxDivSteps

(***************************************************************************)
(* OCR requests: processImage called at any moment, with the responses of  *)
(* the service arriving at any later moment.                               *)
(***************************************************************************)
MaxOcrSteps == 5

OcrFiles == {<<"a">>, <<"b">>}

\* the texts that the service finds in an image; Null when it finds none
OcrTexts ==
    {Null, <<"1", "+", "2">>, <<"2", " ", "U+00D7", " ", "3">>, <<"4", "/", "2">>,
     <<"x", "=", "1">>}

OcrResponses ==
    {[ok |-> TRUE, error |-> Null, expression |-> t] : t \in OcrTexts}
        \cup {[ok |-> FALSE, error |-> e, expression |-> Null] : e \in {Null, <<"q", "u", "o", "t", "a">>}}

OcrProcessImage == steps < MaxOcrSteps /\ \E file \in OcrFiles : ProcessImage(file)

OcrSettle ==
    /\ steps < MaxOcrSteps
    /\ \E i \in 1..Len(inflight) : \E response \in OcrResponses : ProcessImageSettle(i, response)

NextOcr == OcrProcessImage \/ OcrSettle

SpecOcr == Init /\ [][NextOcr]_vars

\* C3: at most one request to the OCR service is outstanding, and a call of
\* processImage made while one is outstanding throws the busy error at once:
\* it sends no request, and the outstanding request, the busy flag and the
\* history are what they were
C3_OneRequestInFlight ==
    /\ [](Len(inflight) <= 1)
    /\ [][last'.op = "processImage" /\ inflight # <<>> =>
            /\ last'.threw
            /\ last'.ret = BusyMessage
            /\ UNCHANGED <<inflight, isProcessing, ocrHistory, state>>]_vars

C3_Witness ==
    /\ last.op = "processImage"
    /\ last.threw
    /\ last.ret = BusyMessage
    /\ inflight = <<(<<"a">>)>>
    /\ last.arg = <<"b">>
    /\ isProcessing

\* C34: isProcessing is true exactly while one accepted processImage call
\* waits for the service; the end of that call clears it, whether the call
\* returns or fails with an HTTP error, with no expression or with a
\* rejected expression; a call that throws the busy error leaves the flag
\* set and the waiting call where it is
C34_BusyFlagLifecycle ==
    /\ [](isProcessing <=> Len(inflight) = 1)
    /\ [](isCurrentlyProcessing(Processor) = isProcessing)
    /\ [][last'.op = "processImageSettle" => ~isProcessing' /\ inflight' = <<>>]_vars
    /\ [][last'.op = "processImage" =>
            IF last'.threw
            THEN isProcessing /\ isProcessing' /\ last'.ret = BusyMessage /\ UNCHANGED inflight
            ELSE ~isProcessing /\ isProcessing' /\ inflight' = <<last'.arg>>]_vars

\* a second call ended, with a rejected expression, and cleared the flag
C34_Witness ==
    /\ last.op = "processImageSettle"
    /\ last.threw
    /\ last.ret = FailedPrefix \o NotValidMessage
    /\ ~isProcessing
    /\ inflight = <<>>
    /\ ocrHistory # <<>>

(***************************************************************************)
(* The history: addToHistory and clearHistory called in any order.         *)
(***************************************************************************)
MaxHistSteps == 5

HistExpressions == {<<"1", "+", "2">>, <<"2", "*", "3">>, <<"4", "/", "2">>, <<"7", "-", "1">>}

HistResults == {Null, <<"3">>}

HistAdd ==
    /\ steps < MaxHistSteps
    /\ \E e \in HistExpressions : \E r \in HistResults : AddToHistory(e, r)

HistClear == steps < MaxHistSteps /\ ClearHistory

NextHist == HistAdd \/ HistClear

SpecHist == Init /\ [][NextHist]_vars

\* C4: the history never holds more than 3 entries, and no two of its
\* entries have the same expression
C4_HistoryBounded ==
    /\ Len(ocrHistory) <= 3
    /\ \A i, j \in 1..Len(ocrHistory) :
           ocrHistory[i].expression = ocrHistory[j].expression => i = j

C4_Witness ==
    /\ Len(ocrHistory) = 3
    /\ last.op = "addToHistory"
    /\ steps = 5
    /\ ocrHistory[1] = last.arg

\* the entries of the history before this step that are not for the
\* expression that the step adds
Others == WithoutExpression(ocrHistory, last'.arg.expression)

Present == Others # ocrHistory

\* C5: addToHistory(e) puts the entry for e in front, and the other entries
\* follow in the order they had; a 4th distinct expression leaves the 3
\* most recent ones, most recent first; adding an expression that the
\* history holds leaves its length as it was
C5_RecencyOrder ==
    [][last'.op = "addToHistory" =>
        /\ ocrHistory'[1] = last'.arg
        /\ Tail(ocrHistory') = SubSeq(Others, 1, Len(ocrHistory') - 1)
        /\ (Len(ocrHistory) = 3 /\ ~Present =>
                ocrHistory' = <<last'.arg, ocrHistory[1], ocrHistory[2]>>)
        /\ (Len(ocrHistory) < 3 /\ ~Present => ocrHistory' = <<last'.arg>> \o ocrHistory)
        /\ (Present => Len(ocrHistory') = Len(ocrHistory))]_vars

C5_Witness ==
    /\ steps = 4
    /\ getHistoryExpressions(ocrHistory)
           = << <<"7", "-", "1">>, <<"4", "/", "2">>, <<"2", "*", "3">> >>

(***************************************************************************)
(* The sanitizer on every raw text of up to MaxSanLen characters of        *)
(* SanAlphabet, and on a raw input that is no string.                      *)
(***************************************************************************)
MaxSanLen == 4

SanAlphabet == {"1", "+", "-", "U+00F7", "(", ")", ".", ",", " ", "a"}

\* the examples of the sanitizer
SanExamples ==
    {<<"1", "-", "-", "2">>,
     <<"5", "*", "-", "3">>,
     <<"1", "2", " ", "U+00D7", " ", "3">>,
     <<"2", ",", "5">>,
     <<"a", "b", "c">>,
     <<"(", "2", "+", "3">>,
     <<"3", " ", "U+2212", "-", "-", " ", "1">>}

SanTexts == {Null} \cup SanExamples \cup UNION {[1..n -> SanAlphabet] : n \in 0..MaxSanLen}

\* one call, on any of the texts
SanSanitize == steps = 0 /\ \E text \in SanTexts : SanitizeExpression(text)

\* then the display form of a text that passed, as processImage makes it
SanDisplay ==
    /\ steps = 1
    /\ last.op = "sanitizeExpression"
    /\ last.ret # <<>>
    /\ NormalizeForDisplay(last.ret)

\* or the sanitizer once more, on what it returned
SanAgain ==
    /\ steps = 1
    /\ last.op = "sanitizeExpression"
    /\ SanitizeExpression(last.ret)

NextSan == SanSanitize \/ SanDisplay \/ SanAgain

SpecSan == Init /\ [][NextSan]_vars

\* the number of characters c among the first n characters of s
CountOf(s, c, n) == Cardinality({i \in 1..n : s[i] = c})

\* every ")" closes a "(" before it, and every "(" is closed
Balanced(s) ==
    /\ \A n \in 1..Len(s) : CountOf(s, ")", n) <= CountOf(s, "(", n)
    /\ CountOf(s, ")", Len(s)) = CountOf(s, "(", Len(s))

SanitizedShape(s) ==
    /\ \A i \in 1..Len(s) : s[i] \in Digits \cup {"+", "-", "*", "/", "(", ")", "."}
    /\ Balanced(s)
    /\ \A i \in 1..(Len(s) - 1) :
           /\ ~(s[i] \in {"+", "-", "*", "/"} /\ s[i + 1] \in {"+", "-", "*", "/"})
           /\ ~(s[i] = "." /\ s[i + 1] = ".")
    /\ \E i \in 1..Len(s) : s[i] \in Digits

\* C6: sanitizeExpression returns the empty string, or a string of digits
\* and + - * / ( ) . with balanced parentheses, no two operators side by
\* side, no two dots side by side, and a digit
C6_SanitizedShape ==
    last.op = "sanitizeExpression" => last.ret = <<>> \/ SanitizedShape(last.ret)

C6_Witness ==
    /\ last.op = "sanitizeExpression"
    /\ last.arg = <<"1", "-", "U+00F7", "1">>
    /\ last.ret = <<"1", "-", "1">>

\* the text without white space and with every glyph and comma replaced
Normalized(text) ==
    MapChars(SelectSeq(text, LAMBDA c : c \notin WhiteSpace),
             LAMBDA c : IF c \in {"U+00D7", "U+2715", "U+2716"} THEN "*"
                        ELSE IF c \in {"U+00F7", "U+2215"} THEN "/"
                        ELSE IF c \in {"U+2212", "U+2013", "U+2014"} THEN "-"
                        ELSE IF c = "," THEN "."
                        ELSE c)

\* the length of the run of operators at the beginning of s
RECURSIVE OperatorPrefix(_)
OperatorPrefix(s) ==
    IF s = <<>> \/ s[1] \notin OperatorChars THEN 0 ELSE 1 + OperatorPrefix(Tail(s))

\* s with every maximal run of two or more operators replaced: by "-" when
\* the run is of "-" only, by its first character otherwise
RECURSIVE RunsReplaced(_)
RunsReplaced(s) ==
    IF s = <<>> THEN <<>>
    ELSE IF OperatorPrefix(s) < 2 THEN <<s[1]>> \o RunsReplaced(Tail(s))
    ELSE IF \A k \in 1..OperatorPrefix(s) : s[k] = "-"
         THEN <<"-">> \o RunsReplaced(SubSeq(s, OperatorPrefix(s) + 1, Len(s)))
    ELSE <<s[1]>> \o RunsReplaced(SubSeq(s, OperatorPrefix(s) + 1, Len(s)))

\* the text passes the whitelist
Whitelisted(s) == s # <<>> /\ \A i \in 1..Len(s) : s[i] \in AllowedChars

\* C19: on a text that passes the whitelist, the sanitizer replaces every
\* maximal run of two or more operators by "-" when the run is of "-" only
\* and by the first character of the run otherwise, before the later steps;
\* "1--2" becomes "1-2" and "5*-3" becomes "5*3"
C19_OperatorRuns ==
    last.op = "sanitizeExpression" /\ Truthy(last.arg) =>
        /\ Whitelisted(Normalized(last.arg)) =>
               /\ CollapseOperators(Normalized(last.arg)) = RunsReplaced(Normalized(last.arg))
               /\ last.ret = SanitizeChecked(StripTrailing(StripLeading(CollapseDots(
                                 RunsReplaced(Normalized(last.arg))))))
        /\ last.arg = <<"1", "-", "-", "2">> => last.ret = <<"1", "-", "2">>
        /\ last.arg = <<"5", "*", "-", "3">> => last.ret = <<"5", "*", "3">>

C19_Witness ==
    /\ last.op = "sanitizeExpression"
    /\ last.arg = <<"5", "*", "-", "3">>
    /\ last.ret = <<"5", "*", "3">>

\* C20: the sanitizer removes white space and maps the glyphs and the comma
\* before the whitelist, so a text and its normalized form have the same
\* result; a text whose normalized form has a character outside the
\* whitelist gives "", the character is not removed; "12 x 3" with the
\* multiplication sign gives "12*3", "2,5" gives "2.5", "abc" gives ""
C20_NormalizeAndWhitelist ==
    last.op = "sanitizeExpression" /\ Truthy(last.arg) =>
        /\ last.ret = sanitizeExpression(Normalized(last.arg))
        /\ ~Whitelisted(Normalized(last.arg)) => last.ret = <<>>
        /\ last.arg = <<"1", "2", " ", "U+00D7", " ", "3">> => last.ret = <<"1", "2", "*", "3">>
        /\ last.arg = <<"2", ",", "5">> => last.ret = <<"2", ".", "5">>
        /\ last.arg = <<"a", "b", "c">> => last.ret = <<>>

C20_Witness ==
    /\ last.op = "sanitizeExpression"
    /\ last.arg = <<"1", "2", " ", "U+00D7", " ", "3">>
    /\ last.ret = <<"1", "2", "*", "3">>

\* C21: a result of sanitizeExpression that is not empty does not begin with
\* +, * or /, does not end with an operator, and begins with "-" when the
\* normalized text does; a text whose parentheses are not balanced gives "",
\* as "(2+3" does
C21_EdgesAndBalance ==
    last.op = "sanitizeExpression" /\ Truthy(last.arg) =>
        /\ last.ret # <<>> =>
               /\ last.ret[1] \notin {"+", "*", "/"}
               /\ last.ret[Len(last.ret)] \notin {"+", "-", "*", "/"}
               /\ CharAt(Normalized(last.arg), 1) = "-" => last.ret[1] = "-"
        /\ ~Balanced(last.arg) => last.ret = <<>>
        /\ last.arg = <<"(", "2", "+", "3">> => last.ret = <<>>

C21_Witness ==
    /\ last.op = "sanitizeExpression"
    /\ last.arg = <<"-", "1", "U+00F7", "+">>
    /\ last.ret = <<"-", "1">>

\* the characters of a displayed expression according to the claim
DisplayChars == Digits \cup {"U+00D7", "U+00F7", "+", "-", "(", ")"}

\* C22 as amended: the display form of every text that passed the
\* sanitizer has no character outside the digits, the multiplication sign,
\* the division sign, +, -, (, ) and the decimal point
C22_DisplayRoundTrip ==
    last.op = "normalizeForDisplay" =>
        \A i \in 1..Len(last.ret) : last.ret[i] \in DisplayChars \cup {"."}

\* C22 as stated: no character outside the digits, the multiplication sign,
\* the division sign, +, -, ( and )
C22_AsStated ==
    last.op = "normalizeForDisplay" => \A i \in 1..Len(last.ret) : last.ret[i] \in DisplayChars

C22_Witness ==
    /\ last.op = "normalizeForDisplay"
    /\ last.arg = <<"1", "/", "1">>
    /\ last.ret = <<"1", "U+00F7", "1">>

\* C38: sanitizeExpression applied to what sanitizeExpression returned for
\* a raw input returns that same text, the empty string included
C38_Idempotent ==
    [][/\ last.op = "sanitizeExpression"
       /\ last'.op = "sanitizeExpression"
       /\ last'.arg = last.ret
       => last'.ret = last.ret /\ ~last'.threw]_vars

\* the second call on "-1/1", which the first call made of a raw text with
\* a division sign
C38_Witness ==
    /\ steps = 2
    /\ last.op = "sanitizeExpression"
    /\ last.arg = <<"-", "1", "/", "1">>
    /\ last.ret = <<"-", "1", "/", "1">>

(***************************************************************************)
(* evaluateExpression on every text of up to MaxEvalLen characters of      *)
(* EvalAlphabet and on the texts of EvalExamples, in states that digits,   *)
(* an operator and earlier evaluations have made.                          *)
(***************************************************************************)
MaxEvalSteps == 2

MaxEvalLen == 3

EvalAlphabet == {"0", "1", "+", "/", "="}

EvalExamples ==
    {Null,
     <<"2", "+">>,
     <<"2", "+", "3", "*", "4">>,
     <<"(", "1", "+", "2", ")", "*", "3", " ", "=">>,
     <<"1", "e", "9", "9", "9">>,
     <<"2", " ", "U+00D7", " ", "3">>}

EvalTexts == EvalExamples \cup UNION {[1..n -> EvalAlphabet] : n \in 0..MaxEvalLen}

EvalDigit == steps < MaxEvalSteps /\ InputDigit(<<"7">>)

EvalOperator == steps < MaxEvalSteps /\ SetOperator(Divide)

EvalEvaluate ==
    /\ steps < MaxEvalSteps
    /\ \E expression \in EvalTexts : EvaluateExpression(expression)

NextEval == EvalDigit \/ EvalOperator \/ EvalEvaluate

SpecEval == Init /\ [][NextEval]_vars

\* the value of the text is no finite number
NoFiniteValue(result) == result.kind # "value" \/ ~isFinite(result.v)

\* the input is empty or no string, does not parse, or has no finite value
FailingInput(expression) ==
    \/ ~Truthy(expression)
    \/ NoFiniteValue(Call("evaluate", <<Trim(StripEquals(expression))>>))

\* C7: evaluateExpression does not throw, and for every failing input it
\* returns "Invalid expression"
C7_AsStated ==
    last.op = "evaluateExpression" =>
        /\ ~last.threw
        /\ FailingInput(last.arg) => last.ret = InvalidExpressionStr

FailureStrings == {InvalidExpressionStr, InvalidResultStr}

\* C8: a call of evaluateExpression that returns a failure string leaves
\* current, previous, operator, overwrite and expression as they were
C8_FailureKeepsState ==
    [][last'.op = "evaluateExpression" /\ last'.ret \in FailureStrings =>
        state' = state]_vars

C8_Witness ==
    /\ last.op = "evaluateExpression"
    /\ last.arg = <<"1", "/", "0">>
    /\ last.ret = InvalidResultStr
    /\ state.operator = Divide
    /\ state.previous = <<"0">>

\* this step is evaluateExpression on a text with a finite value
EvaluatedStep == last'.op = "evaluateExpression" /\ ~FailingInput(last'.arg)

\* the same text with and without "=" at its end has the same result
EqualsIgnored ==
    IF StripEquals(last'.arg) = last'.arg
    THEN Call("evaluateExpression", <<state, last'.arg \o <<"=">>>>).ret = last'.ret
    ELSE Call("evaluateExpression", <<state, StripEquals(last'.arg)>>).ret = last'.ret

\* C15: evaluateExpression on a text with a finite value returns the
\* formatted value, stores the same string in current and the input text as
\* it was given in expression, sets overwrite and clears operator and
\* previous whatever was pending; "=" at the end of the text does not change
\* the result, and "2+3*4" gives "14"
C15_EvaluateSuccess ==
    [][EvaluatedStep =>
            /\ ~last'.threw
            /\ last'.ret = Call("FormatNum", <<Call("evaluate", <<Trim(StripEquals(last'.arg))>>).v>>)
            /\ state'.current = last'.ret
            /\ state'.expression = last'.arg
            /\ state'.overwrite
            /\ state'.operator = Null
            /\ state'.previous = Null
            /\ EqualsIgnored
            /\ last'.arg = <<"2", "+", "3", "*", "4">> => last'.ret = <<"1", "4">>]_vars

C15_Witness ==
    /\ last.op = "evaluateExpression"
    /\ last.arg = <<"(", "1", "+", "2", ")", "*", "3", " ", "=">>
    /\ last.ret = <<"9">>
    /\ state.current = <<"9">>
    /\ state.expression = last.arg
    /\ state.operator = Null
    /\ state.overwrite
    /\ steps = MaxEvalSteps

(***************************************************************************)
(* The nine operations of the calculator called in any order.              *)
(***************************************************************************)
MaxCalcSteps == 4

CalcDigits == {<<"0">>, <<"5">>}

CalcOperators == {<<"+">>, Divide}

CalcTexts == {<<"2", "+", "3", "*", "4">>, <<"1", "/", "0">>, <<"1", "e", "1", "2">>}

CalcDigit == steps < MaxCalcSteps /\ \E d \in CalcDigits : InputDigit(d)

CalcDot == steps < MaxCalcSteps /\ InputDot

CalcOperator == steps < MaxCalcSteps /\ \E o \in CalcOperators : SetOperator(o)

CalcToggleSign == steps < MaxCalcSteps /\ ToggleSign

CalcPercent == steps < MaxCalcSteps /\ InputPercent

CalcClearAll == steps < MaxCalcSteps /\ ClearAll

CalcClearEntry == steps < MaxCalcSteps /\ ClearEntry

CalcCompute == steps < MaxCalcSteps /\ Compute

CalcEvaluate == steps < MaxCalcSteps /\ \E t \in CalcTexts : EvaluateExpression(t)

NextCalc ==
    \/ CalcDigit
    \/ CalcDot
    \/ CalcOperator
    \/ CalcToggleSign
    \/ CalcPercent
    \/ CalcClearAll
    \/ CalcClearEntry
    \/ CalcCompute
    \/ CalcEvaluate

SpecCalc == Init /\ [][NextCalc]_vars

\* s without its leading "-"
Unsigned(s) == IF CharAt(s, 1) = "-" THEN Tail(s) ELSE s

\* s matches ^-?\d*\.?\d*$
IsDecimalForm(s) ==
    /\ \A i \in 1..Len(Unsigned(s)) : Unsigned(s)[i] \in Digits \cup {"."}
    /\ Cardinality({i \in 1..Len(Unsigned(s)) : Unsigned(s)[i] = "."}) <= 1

\* C9: current is an optional "-", digits, at most one ".", digits, or it
\* is "Error" or "Cannot divide by zero"
C9_AsStated == IsDecimalForm(state.current) \/ state.current \in {ErrorStr, DivZeroStr}

\* the texts that the calculator displays in place of a number
Sentinels == {ErrorStr, DivZeroStr, InvalidExpressionStr, InvalidResultStr}

\* s is the text of a number: parseFloat reads a number from it and it is
\* none of the sentinels
IsNumberText(s) == s \notin Sentinels /\ ~Call("isNaN", <<Call("parseFloat", <<s>>)>>)

\* C11: previous is absent or the text of a decimal number, never a
\* sentinel, in every reachable state, the states after a setOperator whose
\* chained compute failed included
C11_AsStated == state.previous = Null \/ IsNumberText(state.previous)

(***************************************************************************)
(* Button clicks, key presses and clicks on history items in any order.    *)
(***************************************************************************)
MaxUiSteps == 3

\* the operators of the operator buttons of the page
ButtonOperators == {<<"+">>, <<"-">>, Times, Divide}

UiDigits == {<<"0">>, <<"5">>}

Button(action, digit, operator) == [action |-> action, digit |-> digit, operator |-> operator]

Buttons ==
    {Button("digit", d, Null) : d \in UiDigits}
        \cup {Button("operator", Null, o) : o \in ButtonOperators}
        \cup {Button(a, Null, Null) : a \in {"dot", "equals", "clear", "toggleSign", "percent"}}

Keys ==
    UiDigits \cup {<<".">>, <<"+">>, <<"-">>, <<"*">>, <<"/">>, <<"=">>, <<"%">>,
                   KeyEnter, KeyEscape, KeyBackspace}

UiClick == steps < MaxUiSteps /\ \E button \in Buttons : Click(button)

UiKeyDown == steps < MaxUiSteps /\ \E key \in Keys : KeyDown(key)

UiHistoryClick ==
    steps < MaxUiSteps /\ \E index \in 0..(maxHistorySize - 1) : HistoryClick(index)

NextUi == UiClick \/ UiKeyDown \/ UiHistoryClick

SpecUi == Init /\ [][NextUi]_vars

\* C10: the pending operator is +, -, the multiplication sign, the division
\* sign, or absent
C10_AsStated == state.operator \in {Null, <<"+">>, <<"-">>, Times, Divide}

\* this step is a click on a history item that has an entry
ReplayStep ==
    /\ last'.op = "historyClick"
    /\ last'.arg[1] + 1 \in 1..Len(ocrHistory)

\* the entry of the item clicked in this step
Replayed == ocrHistory[last'.arg[1] + 1]

\* C37: the evaluation of the expression of an entry of the history
\* succeeds, its value is the result of the entry when the entry has one,
\* and the history is what it was
C37_AsStated ==
    [][ReplayStep =>
          /\ last'.ret \notin {InvalidExpressionStr, InvalidResultStr}
          /\ Replayed.result # Null => last'.ret = Replayed.result
          /\ UNCHANGED ocrHistory]_vars

(***************************************************************************)
(* The keypad: presses of digit keys, operator keys and "=".               *)
(***************************************************************************)
MaxKeypadSteps == 5

KeypadDigits == {<<"3">>, <<"5">>}

\* the operator keys whose operator the handler passes on unchanged
KeypadOperators == {<<"+">>, <<"-">>}

KeypadKeys == KeypadDigits \cup KeypadOperators \cup {<<"=">>}

KeypadKeyDown == steps < MaxKeypadSteps /\ \E key \in KeypadKeys : KeyDown(key)

NextKeypad == KeypadKeyDown

SpecKeypad == Init /\ [][NextKeypad]_vars

\* the expression of the computation that compute() completes on st
CompletedExpression(st) == st.previous \o <<" ">> \o st.operator \o <<" ">> \o st.current

\* this step is a key that completes a computation: "=", or an operator
\* whose setOperator runs the chained compute, with operands that compute
CompletesComputation ==
    /\ last'.op = "keydown"
    /\ ComputeCompletes(state)
    /\ \/ last'.arg = <<"=">>
       \/ last'.arg \in KeypadOperators /\ ~state.overwrite

\* the history after the step begins with the entry of that computation
EntryCreated ==
    /\ ocrHistory' # <<>>
    /\ ocrHistory'[1] = HistoryEntry(CompletedExpression(state),
                                     Call("compute", <<state>>).st.current)

\* C13: every computation completed on the keypad, by equals or by the
\* chained compute of an operator, creates a history entry, and no step of
\* the keypad removes an entry while the history is below its capacity
C13_AsStated ==
    [][/\ CompletesComputation => EntryCreated
       /\ Len(ocrHistory) < maxHistorySize =>
              \A i \in 1..Len(ocrHistory) :
                  \E j \in 1..Len(ocrHistory') :
                      ocrHistory'[j].expression = ocrHistory[i].expression]_vars

\* this step is the key "="
EqualsStep == last'.op = "keydown" /\ last'.arg = <<"=">>

\* C35: the equals key writes to the history only when its compute()
\* completes a computation, and what it writes is the entry of the computed
\* expression with the computed value; when compute() returns early the
\* history stays as it is
C35_AsStated ==
    [][EqualsStep =>
          IF ComputeCompletes(state)
          THEN ocrHistory' = addToHistory(ocrHistory, CompletedExpression(state),
                                          Call("compute", <<state>>).st.current)
          ELSE UNCHANGED ocrHistory]_vars

(***************************************************************************)
(* Arithmetic: operands entered digit by digit, an operator and compute(). *)
(***************************************************************************)
MaxArithSteps == 4

ArithDigits == {<<"0">>, <<"2">>, <<"5">>}

\* the four operators, and the operator that the key handler sets for "*"
ArithOperators == {<<"+">>, <<"-">>, Times, Divide, KeyTimes}

ArithDigit == steps < MaxArithSteps /\ \E d \in ArithDigits : InputDigit(d)

ArithDot == steps < MaxArithSteps /\ InputDot

ArithOperator == steps < MaxArithSteps /\ \E o \in ArithOperators : SetOperator(o)

ArithCompute == steps < MaxArithSteps /\ Compute

NextArith == ArithDigit \/ ArithDot \/ ArithOperator \/ ArithCompute

SpecArith == Init /\ [][NextArith]_vars

\* the value of the operation pending in st, in binary64
Arith(st) ==
    IF st.operator = <<"+">>
    THEN Call("DAdd", <<Call("parseFloat", <<st.previous>>), Call("parseFloat", <<st.current>>)>>)
    ELSE IF st.operator = <<"-">>
    THEN Call("DSub", <<Call("parseFloat", <<st.previous>>), Call("parseFloat", <<st.current>>)>>)
    ELSE IF st.operator = Times
    THEN Call("DMul", <<Call("parseFloat", <<st.previous>>), Call("parseFloat", <<st.current>>)>>)
    ELSE Call("DDiv", <<Call("parseFloat", <<st.previous>>), Call("parseFloat", <<st.current>>)>>)

\* the text of the integer n
SignedToStr(n) == IF n < 0 THEN <<"-">> \o IntToStr(-n) ELSE IntToStr(n)

\* the value of the operation pending in st on integers
ArithInt(st) ==
    IF st.operator = <<"+">> THEN DigitsValue(st.previous) + DigitsValue(st.current)
    ELSE IF st.operator = <<"-">> THEN DigitsValue(st.previous) - DigitsValue(st.current)
    ELSE DigitsValue(st.previous) * DigitsValue(st.current)

MaxTyped == 14

TypedDigits == {<<"0">>, <<"7">>}

\* the digits typed since the zero state or since the last operator
Typed == IF last.op = "inputDigit" THEN last.arg ELSE <<>>

\* inputDigit(digit); the step records all the digits typed so far
TypeDigit(digit) ==
    /\ state' = inputDigit(state, digit).st
    /\ last' = Done("inputDigit", Typed \o digit, inputDigit(state, digit).ret,
                    inputDigit(state, digit).threw)
    /\ steps' = steps + 1
    /\ UNCHANGED <<ocrHistory, isProcessing, inflight, followed>>

TypedDigit == steps < MaxTyped /\ \E d \in TypedDigits : TypeDigit(d)

TypedOperator == steps < MaxTyped /\ Len(state.current) >= 12 /\ SetOperator(<<"+">>)

NextTyped == TypedDigit \/ TypedOperator

SpecTyped == Init /\ [][NextTyped]_vars

\* ds without its leading zeros; "0" when nothing else is left
RECURSIVE Collapsed(_)
Collapsed(ds) ==
    IF ds = <<>> THEN <<"0">>
    ELSE IF ds[1] = "0" THEN Collapsed(Tail(ds))
    ELSE ds

\* C16: after any sequence of at most 12 digits typed one by one from the
\* zero state (or after an operator), getCurrentDisplay() is that sequence
\* with its leading zeros collapsed, and "0" for a sequence of zeros
C16_DigitsDisplayed ==
    last.op = "inputDigit" /\ Len(last.arg) <= 12 => getCurrentDisplay(state) = Collapsed(last.arg)

C16_Witness ==
    /\ last.op = "inputDigit"
    /\ last.arg = <<"0", "0", "7", "0", "7", "7", "0", "0", "7", "7", "7", "0">>
    /\ getCurrentDisplay(state) = <<"7", "0", "7", "7", "0", "0", "7", "7", "7", "0">>
    /\ state.operator = Null

\* C17 as amended: inputDigit called with overwrite false and 12 or more
\* characters in current leaves the whole state unchanged and does not throw
C17_FullDisplayDrops ==
    [][last'.op = "inputDigit" /\ Len(state.current) >= 12 /\ ~state.overwrite =>
            state' = state /\ ~last'.threw]_vars

\* C17 as stated: inputDigit called in any state where current has 12
\* characters leaves current unchanged and does not throw
C17_AsStated ==
    [][last'.op = "inputDigit" /\ Len(state.current) = 12 =>
            state'.current = state.current /\ ~last'.threw]_vars

C17_Witness ==
    /\ last.op = "inputDigit"
    /\ Len(last.arg) = 13
    /\ last.arg[13] = "0"
    /\ state.current = <<"7", "7", "7", "7", "7", "7", "7", "7", "7", "7", "7", "7">>
    /\ ~state.overwrite

(***************************************************************************)
(* The nine operations called with arguments of any kind: digits as        *)
(* strings and as numbers, texts that are no digit, and no argument.       *)
(***************************************************************************)
MaxRaiseSteps == 3

\* the digit 5 as a string and as a number, and arguments that are no digit
RaiseDigits == {<<"5">>, <<"number", "5">>, <<"a">>, <<"1", "2">>, <<>>, Null}

RaiseTexts == {<<"1", "/", "0">>, <<"2", "+">>, <<"2", "+", "3", "*", "4">>, Null}

RaiseDigit == steps < MaxRaiseSteps /\ \E d \in RaiseDigits : InputDigit(d)

RaiseDot == steps < MaxRaiseSteps /\ InputDot

RaiseOperator == steps < MaxRaiseSteps /\ \E o \in {<<"+">>, Divide} : SetOperator(o)

RaiseToggleSign == steps < MaxRaiseSteps /\ ToggleSign

RaisePercent == steps < MaxRaiseSteps /\ InputPercent

RaiseClearAll == steps < MaxRaiseSteps /\ ClearAll

RaiseClearEntry == steps < MaxRaiseSteps /\ ClearEntry

RaiseCompute == steps < MaxRaiseSteps /\ Compute

RaiseEvaluate == steps < MaxRaiseSteps /\ \E t \in RaiseTexts : EvaluateExpression(t)

NextRaise ==
    \/ RaiseDigit
    \/ RaiseDot
    \/ RaiseOperator
    \/ RaiseToggleSign
    \/ RaisePercent
    \/ RaiseClearAll
    \/ RaiseClearEntry
    \/ RaiseCompute
    \/ RaiseEvaluate

SpecRaise == Init /\ [][NextRaise]_vars

\* this step is inputDigit with an argument that does not read as one digit
NoDigitStep ==
    /\ last'.op = "inputDigit"
    /\ ~(Len(String(last'.arg)) = 1 /\ String(last'.arg)[1] \in Digits)

\* C18: inputDigit with an argument that is no single decimal digit throws
\* and leaves the state unchanged, and no other call of an operation throws
C18_AsStated ==
    [][/\ NoDigitStep => last'.threw /\ state' = state
       /\ last'.threw => NoDigitStep]_vars

(***************************************************************************)
(* Editing of the entry: digits, the dot, the sign, percent and clearEntry, *)
(* with a division that can be set and computed.                            *)
(***************************************************************************)
MaxEditSteps == 5

EditDigits == {<<"0">>, <<"1">>}

EditDigit == steps < MaxEditSteps /\ \E d \in EditDigits : InputDigit(d)

EditDot == steps < MaxEditSteps /\ InputDot

EditToggleSign == steps < MaxEditSteps /\ ToggleSign

EditPercent == steps < MaxEditSteps /\ InputPercent

EditClearEntry == steps < MaxEditSteps /\ ClearEntry

EditOperator == steps < MaxEditSteps /\ SetOperator(Divide)

EditCompute == steps < MaxEditSteps /\ Compute

NextEdit ==
    \/ EditDigit
    \/ EditDot
    \/ EditToggleSign
    \/ EditPercent
    \/ EditClearEntry
    \/ EditOperator
    \/ EditCompute

SpecEdit == Init /\ [][NextEdit]_vars

\* C26: clearEntry sets current to "0" and overwrite to false and leaves
\* previous, operator and expression as they were
C26_ClearEntry ==
    [][last'.op = "clearEntry" =>
            /\ state'.current = <<"0">>
            /\ ~state'.overwrite
            /\ state'.previous = state.previous
            /\ state'.operator = state.operator
            /\ state'.expression = state.expression
            /\ ~last'.threw]_vars

C26_Witness ==
    /\ last.op = "clearEntry"
    /\ state.current = <<"0">>
    /\ ~state.overwrite
    /\ state.previous = <<"1">>
    /\ state.operator = Divide
    /\ state.expression = <<"1", " ", "U+00F7">>

\* the number of dots in s
Dots(s) == Cardinality({i \in 1..Len(s) : s[i] = "."})

\* C27: inputDot with overwrite set makes current "0." and clears
\* overwrite; otherwise it appends "." when current has no dot and changes
\* nothing when it has one; so inputDot right after inputDot changes
\* nothing, and current never has more than one dot
C27_InputDot ==
    /\ [][last'.op = "inputDot" =>
            /\ ~last'.threw
            /\ state.overwrite =>
                   state' = [state EXCEPT !.current = <<"0", ".">>, !.overwrite = FALSE]
            /\ ~state.overwrite /\ Dots(state.current) = 0 =>
                   state' = [state EXCEPT !.current = state.current \o <<".">>]
            /\ ~state.overwrite /\ Dots(state.current) > 0 => state' = state
            /\ last.op = "inputDot" => state' = state]_vars
    /\ [](Dots(state.current) <= 1)

C27_Witness ==
    /\ last.op = "inputDot"
    /\ state.current = <<"1", ".", "1">>
    /\ state.operator = Null

\* C28: toggleSign changes nothing when current is "0"; otherwise it
\* removes a leading "-" or, when there is none, adds one, so that a second
\* toggleSign restores current; previous, operator, overwrite and
\* expression stay as they were
C28_ToggleSign ==
    [][last'.op = "toggleSign" =>
            /\ ~last'.threw
            /\ state' = [state EXCEPT !.current = state'.current]
            /\ state.current = <<"0">> => state'.current = state.current
            /\ state.current # <<"0">> /\ CharAt(state.current, 1) = "-" =>
                   state'.current = Tail(state.current)
            /\ state.current # <<"0">> /\ CharAt(state.current, 1) # "-" =>
                   state'.current = <<"-">> \o state.current
            /\ toggleSign(state').st.current = state.current]_vars

C28_Witness ==
    /\ last.op = "toggleSign"
    /\ state.current = <<"-", "1", ".">>
    /\ state.previous = <<"0">>

\* the text of n hundredths, for an integer n
HundredthsStr(n) ==
    IF n % 100 = 0 THEN IntToStr(n \div 100)
    ELSE IF n % 10 = 0 THEN IntToStr(n \div 100) \o <<".", DigitChar((n \div 10) % 10)>>
    ELSE IntToStr(n \div 100) \o <<".", DigitChar((n \div 10) % 10), DigitChar(n % 10)>>

\* C29: inputPercent changes nothing when current does not parse as a
\* number, as with a sentinel; otherwise it puts the formatted value of
\* current / 100 in current (for digits only: the decimal text of the
\* hundredths; 10 becomes 0.1) and leaves previous, operator,
\* overwrite and expression as they were
C29_InputPercent ==
    [][last'.op = "inputPercent" =>
            /\ ~last'.threw
            /\ state' = [state EXCEPT !.current = state'.current]
            /\ Call("isNaN", <<Call("parseFloat", <<state.current>>)>>) => state' = state
            /\ ~Call("isNaN", <<Call("parseFloat", <<state.current>>)>>) =>
                   state'.current =
                       Call("FormatNum", <<Call("DDiv", <<Call("parseFloat", <<state.current>>), Hundred>>)>>)
            /\ IsDigits(state.current) => state'.current = HundredthsStr(DigitsValue(state.current))
            /\ state.current = <<"1", "0">> => state'.current = <<"0", ".", "1">>]_vars

C29_Witness ==
    /\ last.op = "inputPercent"
    /\ state.current = <<"0", ".", "1">>
    /\ steps = 3

(***************************************************************************)
(* Formatting: an operand loaded by evaluateExpression as the first call,  *)
(* then +, a digit, compute and percent in any order.                      *)
(***************************************************************************)
MaxFormatSteps == 5

FormatTexts ==
    {<<"9", "9", "9", "9", "9", "9", "9", "9", "9", "9", "9", "9">>,
     <<"1", "e", "1", "3">>,
     <<"-", "1", "e", "1", "3">>,
     <<"0", ".", "1", "+", "0", ".", "2">>,
     <<"1", "e", "-", "1", "1">>,
     <<"2", "/", "3">>}

FormatEvaluate == steps = 0 /\ \E t \in FormatTexts : EvaluateExpression(t)

FormatOperator == steps < MaxFormatSteps /\ SetOperator(<<"+">>)

FormatDigit == steps < MaxFormatSteps /\ InputDigit(<<"1">>)

FormatCompute == steps < MaxFormatSteps /\ Compute

FormatPercent == steps < MaxFormatSteps /\ InputPercent

NextFormat ==
    \/ FormatEvaluate
    \/ FormatOperator
    \/ FormatDigit
    \/ FormatCompute
    \/ FormatPercent

SpecFormat == Init /\ [][NextFormat]_vars

\* s is a digit, a dot, exactly 6 digits, "e", a sign and digits
IsExponential6(s) ==
    /\ Len(s) >= 11
    /\ s[1] \in Digits
    /\ s[2] = "."
    /\ \A i \in 3..8 : s[i] \in Digits
    /\ s[9] = "e"
    /\ s[10] \in {"+", "-"}
    /\ \A i \in 11..Len(s) : s[i] \in Digits

\* the part of s before its exponent
Mantissa(s) == SubSeq(s, 1, MinOf({Len(s) + 1} \cup {i \in 1..Len(s) : s[i] = "e"}) - 1)

\* the digits of s from its first digit that is not 0 on
SignificantDigits(s) ==
    Cardinality({i \in 1..Len(s) :
                    /\ s[i] \in Digits
                    /\ \E j \in 1..i : s[j] \in Digits \ {"0"}})

\* s writes at most 12 significant digits and no zero at the end of a
\* fraction
IsStripped12(s) ==
    /\ SignificantDigits(Mantissa(s)) <= 12
    /\ Dots(Mantissa(s)) > 0 => Mantissa(s)[Len(Mantissa(s))] \notin {"0", "."}

\* the magnitude of v is at least 1e12, or below 1e-12 and not zero
OutsideRange(v) == DAbsGe(v, D1e12) \/ (~DAbsGe(v, D1eMinus12) /\ v.k # "zero")

\* the text s displays the number v by the formatting rule
Formatted(v, s) ==
    IF OutsideRange(v)
    THEN IsExponential6(Unsigned(s))
    ELSE /\ IsStripped12(s)
         /\ Call("parseFloat", <<s>>) = Call("parseFloat", <<Call("toPrecision", <<v, 12>>)>>)

MaxInputSteps == 4

InputKeys ==
    {<<"6">>, <<"7">>, <<".">>, <<"+">>, <<"-">>, <<"*">>, <<"/">>, <<"=">>,
     KeyEnter, KeyEscape}

\* the keys pressed so far
Pressed == IF last.op = "keys" THEN last.arg ELSE <<>>

\* the key goes through the keydown handler
PressKey(key) ==
    /\ state' = Call("keydown", <<state, ocrHistory, key>>).st
    /\ ocrHistory' = Call("keydown", <<state, ocrHistory, key>>).hist
    /\ last' = Done("keys", Append(Pressed, key),
                    Call("keydown", <<state, ocrHistory, key>>).ret,
                    Call("keydown", <<state, ocrHistory, key>>).threw)
    /\ steps' = steps + 1
    /\ UNCHANGED <<isProcessing, inflight, followed>>

InputKey == steps < MaxInputSteps /\ \E key \in InputKeys : PressKey(key)

NextInput == InputKey

SpecInput == Init /\ [][NextInput]_vars

\* the button that corresponds to a key
ButtonFor(key) ==
    CASE key[1] \in Digits /\ Len(key) = 1 -> Button("digit", key, Null)
      [] key = <<".">> -> Button("dot", Null, Null)
      [] key = <<"+">> -> Button("operator", Null, <<"+">>)
      [] key = <<"-">> -> Button("operator", Null, <<"-">>)
      [] key = <<"*">> -> Button("operator", Null, Times)
      [] key = <<"/">> -> Button("operator", Null, Divide)
      [] key \in {KeyEnter, <<"=">>} -> Button("equals", Null, Null)
      [] key = KeyEscape -> Button("clear", Null, Null)

RECURSIVE ClickAll(_, _, _, _)
\* the calculator and the history after clicks on the buttons for keys[i..]
ClickAll(st, hist, keys, i) ==
    IF i > Len(keys) THEN [st |-> st, hist |-> hist]
    ELSE ClickAll(Call("calculatorButton", <<st, hist, ButtonFor(keys[i])>>).st,
                  Call("calculatorButton", <<st, hist, ButtonFor(keys[i])>>).hist,
                  keys, i + 1)

\* C31: after every sequence of keys the calculator is in the state that
\* the corresponding buttons, clicked on a new page, leave it in; after the
\* keys 6, *, 7, Enter it displays 42
C31_AsStated ==
    last.op = "keys" =>
        /\ state = ClickAll(reset, <<>>, last.arg, 1).st
        /\ (last.arg = <<(<<"6">>), (<<"*">>), (<<"7">>), KeyEnter>> =>
                getCurrentDisplay(state) = <<"4", "2">>)

(***************************************************************************)
(* A request that may never be answered: processImage, the response of the *)
(* service, keys, clicks on history items and clearHistory in any order.   *)
(* Nothing makes the response arrive.                                      *)
(***************************************************************************)
MaxHangSteps == 4

HangKeys == {<<"5">>, <<"+">>, <<"=">>}

HangResponses ==
    {[ok |-> TRUE, error |-> Null, expression |-> <<"1", "+", "2">>],
     [ok |-> FALSE, error |-> Null, expression |-> Null]}

HangProcessImage == steps < MaxHangSteps /\ \E file \in OcrFiles : ProcessImage(file)

HangSettle ==
    /\ steps < MaxHangSteps
    /\ \E i \in 1..Len(inflight) : \E response \in HangResponses : ProcessImageSettle(i, response)

HangKeyDown == steps < MaxHangSteps /\ \E key \in HangKeys : KeyDown(key)

HangHistoryClick == steps < MaxHangSteps /\ HistoryClick(0)

HangClearHistory == steps < MaxHangSteps /\ ClearHistory

NextHang ==
    \/ HangProcessImage
    \/ HangSettle
    \/ HangKeyDown
    \/ HangHistoryClick
    \/ HangClearHistory

SpecHang == Init /\ [][NextHang]_vars

\* this step is the end of the call in flight
Completion == last'.op = "processImageSettle"

\* C32: the busy flag, once set, is cleared by no step other than the end
\* of the call in flight, so it stays set for as long as that call does not
\* end; until then every call of processImage throws the busy error and
\* leaves the flag set
C32_NoTimeout ==
    /\ [][isProcessing /\ ~isProcessing' => Completion]_vars
    /\ [][isProcessing /\ ~Completion => isProcessing' /\ UNCHANGED inflight]_vars
    /\ [][isProcessing /\ last'.op = "processImage" => last'.threw /\ isProcessing']_vars
    /\ [](last.op = "processImage" /\ last.threw => last.ret = BusyMessage)

\* the request of the first step is still unanswered after keys and a
\* click, and the call of the last step was rejected
C32_Witness ==
    /\ steps = MaxHangSteps
    /\ isProcessing
    /\ inflight = <<(<<"a">>)>>
    /\ last.op = "processImage"
    /\ last.threw
    /\ last.ret = BusyMessage
    /\ state.operator = <<"+">>
    /\ state.current = <<"5">>

(***************************************************************************)
(* The solve button: clicks on it, the responses of the service to the     *)
(* requests of its processImage calls, and keys in between.                *)
(***************************************************************************)
MaxSolveSteps == 4

SolveKeys == {<<"5">>, <<"+">>}

\* the texts that the service finds in an image; Null when it finds none
SolveTexts ==
    {Null,
     <<"1", "+", "2">>,
     <<"2", " ", "U+00D7", " ", "3">>,
     <<"(", "1", "+", ")">>,
     <<"1", "/", "0">>,
     <<"x", "=", "1">>}

SolveResponses ==
    {[ok |-> TRUE, error |-> Null, expression |-> t] : t \in SolveTexts}
        \cup {[ok |-> FALSE, error |-> Null, expression |-> Null]}

SolveClick == steps < MaxSolveSteps /\ ProcessImage(<<"a">>)

SolveResponse ==
    /\ steps < MaxSolveSteps
    /\ \E i \in 1..Len(inflight) : \E response \in SolveResponses : SolveSettle(i, response)

SolveKeyDown == steps < MaxSolveSteps /\ \E key \in SolveKeys : KeyDown(key)

NextSolve == SolveClick \/ SolveResponse \/ SolveKeyDown

SpecSolve == Init /\ [][NextSolve]_vars

\* the handler of the solve button ended without a solved expression: with
\* an error of processImage, with "Invalid expression" or with "Invalid result"
NotSolved ==
    /\ last'.op = "solveFromImage"
    /\ last'.threw \/ last'.ret = InvalidResultStr

\* C36: an OCR request that fails, or whose sanitized expression cannot be
\* evaluated, leaves the history and the state of the calculator as they
\* were
C36_AsStated == [][NotSolved => UNCHANGED <<ocrHistory, state>>]_vars

====
